---- MODULE Spec2Model ----
(***************************************************************************)
(* HAL Phase 3 automation: the daily task scheduler (task-scheduler.js)    *)
(* and the automation engine (automation/automation-engine.js), modelled   *)
(* as one process run: construction of the engine, one daily cycle         *)
(* (executeDaily) and the exit of main.                                    *)
(***************************************************************************)
EXTENDS Integers, Sequences, FiniteSets, TLC

(***************************************************************************)
(* Bounds of the model.  The clock is read in half days relative to        *)
(* PHASE_START (local midnight of 2025-10-01); Math.random() is drawn      *)
(* from the grid {0, 1/RandSteps, ..., (RandSteps-1)/RandSteps}.           *)
(***************************************************************************)
MaxBefore == 2

MaxAfter == 36

RandSteps == 2

\* The last start of a run of the engine, in half days after the first run,
\* when the engine runs more than once.
MaxRunTime == 1

\* The number of sockets that can connect to the dashboard.
MaxClients == 2

\* The largest number of alerts already inserted in an initial state of the
\* dashboard's alert list.
MaxPrefill == 58

\* The number of timer callbacks of the dashboard that run from an initial
\* state.
MaxTicks == 2

\* The tasks counted as completed in an initial state of the dashboard are
\* none, or all but MaxCountBack, ..., all (42) of them.
MaxCountBack == 1

\* The largest number of pieces of a task name handed to the classification
\* of simulateTaskExecution on its own.
MaxNamePieces == 4

\* The largest number of lines piped to the deployment script.
MaxLines == 3

\* The sockets that connect while every route, socket event and timer of
\* the dashboard is explored together.
MaxWatched == 1

\* The largest result set handed to the Report Aggregator on its own.
MaxResults == 4

\* The durations of completed results handed to the Report Aggregator are
\* k * k * (expectedTime - 1) / 2 for k in 0..MaxDurationSteps.
MaxDurationSteps == 2

(***************************************************************************)
(* Program constants.                                                      *)
(***************************************************************************)
Horizon == 18

Week1LastDay == 7

Week2LastDay == 12

ExpectedTime == 300

Null == "null"

\* metrics.tasksTotal
TasksTotal == 42

\* The alerts addAlert keeps.
AlertCap == 50

(***************************************************************************)
(* The plan (TASKS).  A task name is kept as the tuple of its words: the   *)
(* only operation on names is String.includes with one of the category     *)
(* keywords, and in the plan every occurrence of a keyword is a whole      *)
(* word.                                                                   *)
(***************************************************************************)
\* A task record whose only dependency is the task itself.
TaskDependingOnItself(id, name, owner, hours, days, deps) ==
    [id |-> id, name |-> name, owner |-> owner, hours |-> hours, days |-> days,
     deps |-> <<id>>]

Task(id, name, owner, hours, days, deps) ==
    [id |-> id, name |-> name, owner |-> owner, hours |-> hours, days |-> days, deps |-> deps]

Week1Tasks ==
    << Task("1.1", <<"Schema", "Design">>, "Aria", 4, <<1, 2>>, <<>>),
       Task("1.2", <<"Vector", "Storage", "Research">>, "Mira", 4, <<1, 2>>, <<"1.1">>),
       Task("1.3", <<"Memory", "Scoping", "Framework">>, "Lex", 6, <<1, 2>>, <<"1.1">>),
       Task("2.1", <<"Embeddings", "Service", "Setup">>, "Mira", 6, <<3, 4>>, <<"1.2">>),
       Task("2.2", <<"Semantic", "Search", "Engine">>, "Mira", 8, <<3, 4>>, <<"2.1">>),
       Task("2.3", <<"Memory", "Indexing", "System">>, "Aria", 4, <<3, 4>>, <<"2.1">>),
       Task("3.1", <<"Airtable", "Memory", "Integration">>, "Aria", 6, <<5, 6>>, <<"1.1", "1.3">>),
       Task("3.2", <<"Memory", "Access", "Controls">>, "Lex", 4, <<5, 6>>, <<"3.1">>),
       Task("3.3", <<"Memory", "Retrieval", "Optimization">>, "Mira", 6, <<5, 6>>, <<"2.2", "3.1">>),
       Task("4.1", <<"Memory", "Service", "Integration", "Testing">>, "Zane", 8, <<7>>,
            <<"3.1", "3.2", "3.3">>) >>

Week2Tasks ==
    << Task("5.1", <<"Policy", "Framework", "Design">>, "Lex", 6, <<8, 9>>, <<>>),
       Task("5.2", <<"LLM", "Judge", "Configuration">>, "Lex", 4, <<8, 9>>, <<"5.1">>),
       Task("5.3", <<"Escalation", "Workflow", "Design">>, "Lex", 4, <<8, 9>>, <<"5.1">>),
       Task("6.1", <<"Input", "Sanitization", "Pipeline">>, "Lex", 6, <<10, 11>>, <<"5.2">>),
       Task("6.2", <<"Output", "Filtering", "System">>, "Lex", 6, <<10, 11>>, <<"5.2">>),
       Task("6.3", <<"Real-time", "Safety", "Validation">>, "Lex", 8, <<10, 11>>, <<"6.1", "6.2">>),
       Task("7.1", <<"CI", "Integration", "Enhancement">>, "Kai", 4, <<12>>, <<"6.3">>),
       Task("7.2", <<"Safety", "Metrics", "Dashboard">>, "Kai", 4, <<12>>, <<"6.3">>) >>

Week3Tasks ==
    << Task("8.1", <<"Performance", "Metrics", "Schema">>, "Aria", 4, <<13, 14>>, <<>>),
       Task("8.2", <<"Task", "Outcome", "Tracking">>, "Zane", 6, <<13, 14>>, <<"8.1">>),
       Task("8.3", <<"Quality", "Assessment", "Framework">>, "Zane", 6, <<13, 14>>, <<"8.1">>),
       Task("9.1", <<"Real-time", "Performance", "Dashboard">>, "Kai", 8, <<15, 16>>, <<"8.2">>),
       Task("9.2", <<"Drift", "Detection", "System">>, "Mira", 6, <<15, 16>>, <<"8.2", "8.3">>),
       Task("9.3", <<"Automated", "Alerting", "System">>, "Kai", 4, <<15, 16>>, <<"9.2">>),
       Task("10.1", <<"End-to-End", "Integration", "Testing">>, "Zane", 12, <<17, 18>>,
            <<"9.1", "9.2", "9.3">>),
       Task("10.2", <<"Performance", "Validation">>, "Zane", 4, <<17, 18>>, <<"10.1">>),
       Task("10.3", <<"Security", "and", "Safety", "Testing">>, "Lex", 4, <<17, 18>>, <<"10.1">>),
       Task("10.4", <<"User", "Acceptance", "Testing">>, "Lena", 4, <<17, 18>>, <<"10.2">>) >>

\* TASKS[w] is TASKS['week' + w] of the source.
TASKS ==
    << [name |-> <<"Memory", "Management", "Foundation">>,
        days |-> <<1, 2, 3, 4, 5, 6, 7>>, tasks |-> Week1Tasks],
       [name |-> <<"Guardrails", "and", "Safety", "Systems">>,
        days |-> <<8, 9, 10, 11, 12>>, tasks |-> Week2Tasks],
       [name |-> <<"Performance", "Tracking", "and", "Integration">>,
        days |-> <<13, 14, 15, 16, 17, 18>>, tasks |-> Week3Tasks] >>

\* Array.prototype.includes / String.prototype.includes on a word tuple.
Includes(seq, x) == \E k \in 1..Len(seq) : seq[k] = x

Min(a, b) == IF a <= b THEN a ELSE b

Max(a, b) == IF a >= b THEN a ELSE b

\* moment.diff(..., 'days'): the difference in whole days, truncated toward zero.
DiffDays(halfDays) == IF halfDays >= 0 THEN halfDays \div 2 ELSE -((-halfDays) \div 2)

\* getCurrentPhaseDay without the lower clamp Math.max(..., 1).
getCurrentPhaseDayNoFloor(nowHalfDays) ==
    LET daysSinceStart == DiffDays(nowHalfDays) + 1
    IN  Min(daysSinceStart, Horizon)

getCurrentPhaseDay(nowHalfDays) ==
    LET daysSinceStart == DiffDays(nowHalfDays) + 1
    IN  Min(Max(daysSinceStart, 1), Horizon)

\* getCurrentWeek with strict comparisons at the week boundaries.
getCurrentWeekStrict(d) ==
    IF d < Week1LastDay THEN 1
    ELSE IF d < Week2LastDay THEN 2
    ELSE 3

getCurrentWeek(d) ==
    IF d <= Week1LastDay THEN 1
    ELSE IF d <= Week2LastDay THEN 2
    ELSE 3

\* getTasksForDay without the filter on task.days: all the tasks of the week.
getTasksForDayWholeWeek(d) ==
    LET week == getCurrentWeek(d)
    IN  IF week \notin DOMAIN TASKS THEN <<>>
        ELSE LET sel == TASKS[week].tasks
             IN  [k \in 1..Len(sel) |->
                    [id |-> sel[k].id, name |-> sel[k].name, owner |-> sel[k].owner,
                     hours |-> sel[k].hours, days |-> sel[k].days, deps |-> sel[k].deps,
                     week |-> week, day |-> d]]

\* getTasksForDay with find in the place of filter: the first task of the
\* week scheduled on the day, alone.
getTasksForDayFirstMatch(d) ==
    LET week == getCurrentWeek(d)
    IN  IF week \notin DOMAIN TASKS THEN <<>>
        ELSE LET all == SelectSeq(TASKS[week].tasks, LAMBDA t : Includes(t.days, d))
                 sel == SubSeq(all, 1, Min(1, Len(all)))
             IN  [k \in 1..Len(sel) |->
                    [id |-> sel[k].id, name |-> sel[k].name, owner |-> sel[k].owner,
                     hours |-> sel[k].hours, days |-> sel[k].days, deps |-> sel[k].deps,
                     week |-> week, day |-> d]]

\* The derived display id (taskId) of the source is a string no operation of
\* the engine reads; the annotation keeps week and day.
getTasksForDay(d) ==
    LET week == getCurrentWeek(d)
    IN  IF week \notin DOMAIN TASKS THEN <<>>
        ELSE LET sel == SelectSeq(TASKS[week].tasks, LAMBDA t : Includes(t.days, d))
             IN  [k \in 1..Len(sel) |->
                    [id |-> sel[k].id, name |-> sel[k].name, owner |-> sel[k].owner,
                     hours |-> sel[k].hours, days |-> sel[k].days, deps |-> sel[k].deps,
                     week |-> week, day |-> d]]

(***************************************************************************)
(* The automation engine.                                                  *)
(*   now          the clock, in half days since PHASE_START                *)
(*   slackWebhook the webhook client, or Null when SLACK_WEBHOOK_URL is    *)
(*                not set                                                  *)
(*   pc           the position of main / executeDaily                      *)
(*   idx          the position of the for loop of executeTasks (1-based)   *)
(*   results      the results array of executeTasks                        *)
(*   thrown       the exception in flight or caught (Null when none)       *)
(*   sent         the messages handed to slackWebhook.send, each with the  *)
(*                outcome of the delivery                                  *)
(*   log          the console lines of the notification paths and of main  *)
(*   reports      the reports directory: date -> JSON text of              *)
(*                daily-report-<date>.json                                 *)
(*   exitCode     the argument of process.exit (Null while running)        *)
(*   calls        the invocations of executeTask and                       *)
(*                simulateTaskExecution, in order                          *)
(*   writes       the files fs.writeFileSync has written, in order, over   *)
(*                all the runs of the engine                               *)
(***************************************************************************)
VARIABLES now, slackWebhook, pc, idx, results, thrown, sent, log, reports, exitCode, calls,
          writes

engineVars ==
    <<now, slackWebhook, pc, idx, results, thrown, sent, log, reports, exitCode, calls, writes>>

(***************************************************************************)
(* The state of the monitoring dashboard (MonitoringDashboard).            *)
(*   metrics      this.metrics: tasksCompleted, tasksTotal, systemHealth   *)
(*                and alerts (startTime is kept through dclock; currentDay *)
(*                and currentWeek are recomputed by getSystemStatus)       *)
(*   clients      this.clients, the set of connected sockets               *)
(*   readyState   the readyState of each socket                            *)
(*   outbox       the messages client.send handed to each socket, in order *)
(*   dclock       the dashboard's clock (Date.now()), in steps since start *)
(*   ticks        the number of timer callbacks that have run since the    *)
(*                initial state                                            *)
(*   inserted     every alert addAlert has been called with, stamped, in   *)
(*                the order of the calls                                   *)
(*   response     the body of the last response res.json has sent          *)
(***************************************************************************)
VARIABLES metrics, clients, readyState, outbox, dclock, ticks, inserted, response

dashVars == <<metrics, clients, readyState, outbox, dclock, ticks, inserted, response>>

(***************************************************************************)
(* The state of the blueprint deployment script (scripts/make-deploy.js),  *)
(* a process of its own.                                                   *)
(*   makeEnv       whether MAKE_API_TOKEN and MAKE_TEAM_ID are both set    *)
(*   isTTY         process.stdin.isTTY                                     *)
(*   stdinData     the lines piped to the script                           *)
(*   fileSystem    what each path holds: no file, a file that is not JSON, *)
(*                 or a blueprint                                          *)
(*   deployPc      the position of the script                              *)
(*   filePaths     main's filePaths                                        *)
(*   fileIdx       the position of the for loop in filePaths               *)
(*   deployResults main's results                                          *)
(*   requests      the paths whose blueprint was posted to the API, in     *)
(*                 the order of the requests                               *)
(*   deployExit    the exit code of the process, <<>> while it runs        *)
(***************************************************************************)
VARIABLES makeEnv, isTTY, stdinData, fileSystem, deployPc, filePaths, fileIdx,
          deployResults, requests, deployExit

deployVars ==
    <<makeEnv, isTTY, stdinData, fileSystem, deployPc, filePaths, fileIdx,
      deployResults, requests, deployExit>>

(***************************************************************************)
(* simulateTaskExecution's choice of the task type, on its own.            *)
(*   taskName      task.name, as the sequence of the pieces of the string  *)
(*   taskType      the local taskType once chosen, "undetermined" before   *)
(***************************************************************************)
VARIABLES taskName, taskType

simVars == <<taskName, taskType>>

toolVars == <<deployVars, simVars>>

vars == <<engineVars, dashVars, toolVars>>

\* The paths the file system is described for.
Paths == {"a.json", "b.json"}

\* The deployment script has not been started.
DeployIdle ==
    /\ makeEnv = TRUE
    /\ isTTY = FALSE
    /\ stdinData = <<>>
    /\ fileSystem = [p \in Paths |-> "missing"]
    /\ deployPc = "notStarted"
    /\ filePaths = <<>>
    /\ fileIdx = 1
    /\ deployResults = <<>>
    /\ requests = <<>>
    /\ deployExit = <<>>

\* No task name is being classified.
SimIdle ==
    /\ taskName = <<>>
    /\ taskType = "undetermined"

ToolsIdle == DeployIdle /\ SimIdle

\* The values Math.random() is drawn from are r / RandSteps, r in Rand.
Rand == 0..(RandSteps - 1)

\* executeDaily's locals; the clock does not advance by a half day within a run.
currentDay == getCurrentPhaseDay(now)

currentWeek == getCurrentWeek(currentDay)

tasksForToday == getTasksForDay(currentDay)

\* moment().format('YYYY-MM-DD'), as the number of the calendar day
\* relative to the day of PHASE_START.
Today == now \div 2

\* taskTypes, in the insertion order in which for..in visits its keys.
taskTypes ==
    << [type |-> "Schema", baseTime |-> 3000, variance |-> 1000],
       [type |-> "Vector", baseTime |-> 5000, variance |-> 2000],
       [type |-> "Memory", baseTime |-> 4000, variance |-> 1500],
       [type |-> "Safety", baseTime |-> 6000, variance |-> 2500],
       [type |-> "Testing", baseTime |-> 8000, variance |-> 3000],
       [type |-> "Integration", baseTime |-> 10000, variance |-> 4000],
       [type |-> "Dashboard", baseTime |-> 4000, variance |-> 1000] >>

\* TaskTypeIndex that takes the type whose keyword comes first in the name.
TaskTypeIndexFirstInName(name) ==
    LET at == {p \in 1..Len(name) : \E k \in 1..Len(taskTypes) : name[p] = taskTypes[k].type}
    IN  IF at = {} THEN 1
        ELSE LET first == CHOOSE p \in at : \A q \in at : p <= q
             IN  CHOOSE k \in 1..Len(taskTypes) : name[first] = taskTypes[k].type

\* The index in taskTypes of the type of a task name: the first type, in
\* taskTypes' order, that the name includes; 'Schema' (index 1) by default.
TaskTypeIndex(name) ==
    LET hits == {k \in 1..Len(taskTypes) : Includes(name, taskTypes[k].type)}
    IN  IF hits = {} THEN 1 ELSE CHOOSE k \in hits : \A j \in hits : k <= j

\* checkDependencies that consults the results of the running cycle: a
\* dependency that was blocked or has failed today is not ready.
checkDependenciesReadsResults(deps, r) ==
    IF deps = Null \/ Len(deps) = 0 THEN TRUE
    ELSE /\ 5 * r > RandSteps
         /\ \A k \in 1..Len(results) :
              Includes(deps, results[k].taskId) => results[k].status = "completed"

\* checkDependencies without the test for an empty dependency list.
checkDependenciesNoEmptyTest(deps, r) == 5 * r > RandSteps

\* checkDependencies: r / RandSteps is the value of Math.random().
checkDependencies(deps, r) ==
    IF deps = Null \/ Len(deps) = 0 THEN TRUE
    ELSE 5 * r > RandSteps

\* Math.random() < 0.05
FailureDrawn(r) == 20 * r < RandSteps

\* Math.round(p / q) for p >= 0, q > 0.
Round(p, q) == (2 * p + q) \div (2 * q)

Count(rs, st) == Cardinality({k \in 1..Len(rs) : rs[k].status = st})

RECURSIVE SumDuration(_)
SumDuration(rs) == IF Len(rs) = 0 THEN 0 ELSE rs[1].duration + SumDuration(Tail(rs))

\* calculateEfficiency without Math.min(..., 1) around expectedTime / avgTime.
calculateEfficiencyNoCap(rs) ==
    LET n == Len(rs)
        c == Count(rs, "completed")
        d == SumDuration(rs)
    IN  IF n = 0 THEN [nan |-> TRUE]
        ELSE IF d = 0
             THEN [value |-> Round(70 * c + 30 * n, n)]
             ELSE [value |-> Round(70 * c * d + 30 * ExpectedTime * n * n, n * d)]

\* calculateEfficiency, in exact arithmetic: NaN for an empty result set;
\* 300 / 0 is Infinity, so timeEfficiency is 1 when every duration is 0.
calculateEfficiency(rs) ==
    LET n == Len(rs)
        c == Count(rs, "completed")
        d == SumDuration(rs)
    IN  IF n = 0 THEN [nan |-> TRUE]
        ELSE IF d <= ExpectedTime * n
             THEN [value |-> Round(70 * c + 30 * n, n)]
             ELSE [value |-> Round(70 * c * d + 30 * ExpectedTime * n * n, n * d)]

\* SuccessRate that writes the ratio completed / total instead of the percentage.
SuccessRateAsRatio(rs) ==
    IF Len(rs) > 0 THEN [tenths |-> Round(10 * Count(rs, "completed"), Len(rs))]
    ELSE [literal |-> "0"]

\* SuccessRate that truncates to one decimal place instead of rounding.
SuccessRateTruncated(rs) ==
    IF Len(rs) > 0 THEN [tenths |-> (1000 * Count(rs, "completed")) \div Len(rs)]
    ELSE [literal |-> "0"]

\* (completed / total * 100).toFixed(1), kept as the number of tenths it
\* writes ("75.0" is 750), or the literal string '0'.
SuccessRate(rs) ==
    IF Len(rs) > 0 THEN [tenths |-> Round(1000 * Count(rs, "completed"), Len(rs))]
    ELSE [literal |-> "0"]

\* DailyReport whose preview is of day d + 1 without the clamp to the horizon.
DailyReportNextDayUnclamped(date, d, week, rs) ==
    [date |-> date,
     day |-> d,
     week |-> week,
     summary |-> [total |-> Len(rs),
                  completed |-> Count(rs, "completed"),
                  failed |-> Count(rs, "failed"),
                  blocked |-> Count(rs, "blocked"),
                  successRate |-> SuccessRate(rs)],
     performance |-> [totalTime |-> Round(SumDuration(rs), 60),
                      averageTime |-> IF Len(rs) > 0 THEN Round(SumDuration(rs), Len(rs)) ELSE 0,
                      efficiency |-> calculateEfficiency(rs)],
     nextDay |-> [day |-> d + 1,
                  week |-> getCurrentWeek(d + 1),
                  scheduledTasks |-> Len(getTasksForDay(d + 1))]]

\* DailyReport whose total counts the executed (not blocked) results only.
DailyReportTotalExecuted(date, d, week, rs) ==
    [date |-> date,
     day |-> d,
     week |-> week,
     summary |-> [total |-> Len(rs) - Count(rs, "blocked"),
                  completed |-> Count(rs, "completed"),
                  failed |-> Count(rs, "failed"),
                  blocked |-> Count(rs, "blocked"),
                  successRate |-> SuccessRate(rs)],
     performance |-> [totalTime |-> Round(SumDuration(rs), 60),
                      averageTime |-> IF Len(rs) > 0 THEN Round(SumDuration(rs), Len(rs)) ELSE 0,
                      efficiency |-> calculateEfficiency(rs)],
     nextDay |-> [day |-> Min(d + 1, Horizon),
                  week |-> getCurrentWeek(Min(d + 1, Horizon)),
                  scheduledTasks |-> Len(getTasksForDay(Min(d + 1, Horizon)))]]

\* The report object of generateDailyReport.
DailyReport(date, d, week, rs) ==
    [date |-> date,
     day |-> d,
     week |-> week,
     summary |-> [total |-> Len(rs),
                  completed |-> Count(rs, "completed"),
                  failed |-> Count(rs, "failed"),
                  blocked |-> Count(rs, "blocked"),
                  successRate |-> SuccessRate(rs)],
     performance |-> [totalTime |-> Round(SumDuration(rs), 60),
                      averageTime |-> IF Len(rs) > 0 THEN Round(SumDuration(rs), Len(rs)) ELSE 0,
                      efficiency |-> calculateEfficiency(rs)],
     nextDay |-> [day |-> Min(d + 1, Horizon),
                  week |-> getCurrentWeek(Min(d + 1, Horizon)),
                  scheduledTasks |-> Len(getTasksForDay(Min(d + 1, Horizon)))]]

(***************************************************************************)
(* JSON.stringify and JSON.parse on a report. A JSON text is kept as the   *)
(* tree of its tokens: a number token, a string token or the token null.   *)
(* JSON.stringify writes a finite number as a number token and NaN as      *)
(* null; JSON.parse reads null as the value null.                          *)
(***************************************************************************)
JsonNumber(n) == [num |-> n]

JsonString(s) == [str |-> s]

JsonNull == [null |-> TRUE]

\* The value null of the language, as distinct from NaN.
JsNull == [null |-> TRUE]

\* Serialization of a number that may be NaN (calculateEfficiency's result).
JsonOfNumber(x) == IF "nan" \in DOMAIN x THEN JsonNull ELSE JsonNumber(x.value)

ParseNumber(t) == IF "null" \in DOMAIN t THEN JsNull ELSE [value |-> t.num]

JsonStringify(report) ==
    [date |-> JsonString(report.date),
     day |-> JsonNumber(report.day),
     week |-> JsonNumber(report.week),
     summary |-> [total |-> JsonNumber(report.summary.total),
                  completed |-> JsonNumber(report.summary.completed),
                  failed |-> JsonNumber(report.summary.failed),
                  blocked |-> JsonNumber(report.summary.blocked),
                  successRate |-> JsonString(report.summary.successRate)],
     performance |-> [totalTime |-> JsonNumber(report.performance.totalTime),
                      averageTime |-> JsonNumber(report.performance.averageTime),
                      efficiency |-> JsonOfNumber(report.performance.efficiency)],
     nextDay |-> [day |-> JsonNumber(report.nextDay.day),
                  week |-> JsonNumber(report.nextDay.week),
                  scheduledTasks |-> JsonNumber(report.nextDay.scheduledTasks)]]

JsonParse(text) ==
    [date |-> text.date.str,
     day |-> text.day.num,
     week |-> text.week.num,
     summary |-> [total |-> text.summary.total.num,
                  completed |-> text.summary.completed.num,
                  failed |-> text.summary.failed.num,
                  blocked |-> text.summary.blocked.num,
                  successRate |-> text.summary.successRate.str],
     performance |-> [totalTime |-> text.performance.totalTime.num,
                      averageTime |-> text.performance.averageTime.num,
                      efficiency |-> ParseNumber(text.performance.efficiency)],
     nextDay |-> [day |-> text.nextDay.day.num,
                  week |-> text.nextDay.week.num,
                  scheduledTasks |-> text.nextDay.scheduledTasks.num]]

\* The error object a rejected promise or a throw carries.
NoError == [name |-> "none"]

Error(message) == [name |-> "Error", message |-> message]

\* The owner a message template prints: `@${r.owner}` is '@undefined' for a
\* result without the field.
OwnerOf(r) == IF "owner" \in DOMAIN r THEN r.owner ELSE "undefined"

\* The three result objects executeTask returns (start and end time are
\* kept through duration only).
BlockedResult(task) ==
    [taskId |-> task.id, status |-> "blocked",
     message |-> <<"Dependencies not completed">>, duration |-> 0]

CompletedResult(task, duration) ==
    [taskId |-> task.id, status |-> "completed",
     message |-> <<"Task completed successfully">>, duration |-> duration,
     owner |-> task.owner]

FailedResult(task, error) ==
    [taskId |-> task.id, status |-> "failed", message |-> error.message,
     duration |-> 0, owner |-> task.owner, error |-> error]

\* The messages the engine builds.
StartupMessage ==
    [kind |-> "startup", text |-> <<"HAL Phase 3 Daily Execution Started">>,
     day |-> currentDay, week |-> currentWeek, tasks |-> Len(tasksForToday)]

TaskMessage(task, result) ==
    [kind |-> "task", text |-> <<"Task Update">>,
     color |-> CASE result.status = "completed" -> "good"
                 [] result.status = "failed" -> "danger"
                 [] result.status = "blocked" -> "warning",
     taskId |-> task.id, name |-> task.name, owner |-> task.owner,
     status |-> result.status, duration |-> result.duration,
     message |-> result.message]

\* report.summary.successRate >= 90 compares the string as a number.
RateAtLeast(rate, percent) ==
    IF "tenths" \in DOMAIN rate THEN rate.tenths >= 10 * percent ELSE 0 >= percent

ReportMessage(report) ==
    [kind |-> "report", text |-> <<"HAL Phase 3 Daily Report">>,
     day |-> report.day,
     color |-> IF RateAtLeast(report.summary.successRate, 90) THEN "good"
               ELSE IF RateAtLeast(report.summary.successRate, 70) THEN "warning"
               ELSE "danger",
     progressPercent |-> Round(report.day * 100, Horizon),
     daysRemaining |-> Horizon - report.day,
     completed |-> report.summary.completed, total |-> report.summary.total,
     successRate |-> report.summary.successRate,
     efficiency |-> report.performance.efficiency,
     totalTime |-> report.performance.totalTime,
     tomorrow |-> report.nextDay.scheduledTasks]

AlertMessage(rs) ==
    LET alerts == SelectSeq(rs, LAMBDA r : r.status = "failed" \/ r.status = "blocked")
    IN  [kind |-> "alert", text |-> <<"Alert: tasks need attention">>,
         count |-> Len(alerts),
         attachments |-> [k \in 1..Len(alerts) |->
                            [task |-> alerts[k].taskId, status |-> alerts[k].status,
                             owner |-> OwnerOf(alerts[k]), issue |-> alerts[k].message]]]

ErrorMessage(error) ==
    [kind |-> "error", text |-> <<"HAL Phase 3 Automation Error">>,
     error |-> error.message]

Line(tag, text) == [line |-> tag, text |-> text]

\* slackWebhook.send(message): the message goes out and the delivery
\* succeeds or the promise rejects.
WebhookSend(message, delivered) ==
    sent' = Append(sent, [message |-> message, delivered |-> delivered])

SendError == Error(<<"An HTTP protocol error occurred">>)

PersistError == Error(<<"ENOENT: no such file or directory, open">>)

\* sendSlackNotification without the test of the webhook: send is called on
\* null and the TypeError is caught and logged like a failed delivery.
sendSlackNotificationUnguarded(lines, message, delivered) ==
    IF slackWebhook = Null
    THEN /\ log' = lines \o <<Line("sendFailed", message.text)>>
         /\ sent' = sent
    ELSE /\ WebhookSend(message, delivered)
         /\ log' = lines \o <<Line(IF delivered THEN "sent" ELSE "sendFailed", message.text)>>

\* sendSlackNotification: never throws.
sendSlackNotification(lines, message, delivered) ==
    IF slackWebhook = Null
    THEN /\ log' = lines \o <<Line("notConfigured", message.text)>>
         /\ sent' = sent
    ELSE /\ WebhookSend(message, delivered)
         /\ log' = lines \o <<Line(IF delivered THEN "sent" ELSE "sendFailed", message.text)>>

(***************************************************************************)
(* The monitoring dashboard.                                               *)
(***************************************************************************)
ClientIds == 1..MaxClients

\* No request has been answered yet.
NoResponse == [endpoint |-> "none"]

\* The state the constructor leaves: no socket has connected, no alert.
DashboardConstructed ==
    /\ metrics = [tasksCompleted |-> 0, tasksTotal |-> TasksTotal,
                  systemHealth |-> "healthy", alerts |-> <<>>]
    /\ clients = {}
    /\ readyState = [c \in ClientIds |-> "CONNECTING"]
    /\ outbox = [c \in ClientIds |-> <<>>]
    /\ dclock = 0
    /\ ticks = 0
    /\ inserted = <<>>
    /\ response = NoResponse

\* getSystemStatus on the metrics m at the time t.
getSystemStatus(m, t) ==
    [phase |-> [currentDay |-> currentDay,
                totalDays |-> Horizon,
                daysRemaining |-> Horizon - currentDay,
                progress |-> Round(100 * currentDay, Horizon),
                week |-> getCurrentWeek(currentDay)],
     tasks |-> [today |-> Len(getTasksForDay(currentDay)),
                completed |-> m.tasksCompleted,
                total |-> m.tasksTotal,
                completionRate |-> Round(100 * m.tasksCompleted, m.tasksTotal)],
     system |-> [health |-> m.systemHealth,
                 uptime |-> t,
                 lastUpdate |-> t,
                 alerts |-> Len(m.alerts)]]

\* The message a socket is sent when it connects.
InitialMessage(m, t) == [type |-> "initial", data |-> getSystemStatus(m, t)]

\* The file names of the reports directory in sorted order, as the dates
\* they carry.
RECURSIVE SortedDates(_)
SortedDates(dates) ==
    IF dates = {} THEN <<>>
    ELSE LET first == CHOOSE d \in dates : \A e \in dates : d <= e
         IN  <<first>> \o SortedDates(dates \ {first})

\* The last n elements of a sequence (slice(-n)).
LastOf(seq, n) == IF Len(seq) <= n THEN seq ELSE SubSeq(seq, Len(seq) - n + 1, Len(seq))

\* getReports: the last 30 report files in the order of their names,
\* parsed. Every file the engine writes parses.
getReports ==
    LET files == LastOf(SortedDates(DOMAIN reports), 30)
    IN  [k \in 1..Len(files) |-> JsonParse(reports[files[k]])]

\* reduce((sum, x) => sum + x, 0) on a sequence of numbers.
RECURSIVE SumSeq(_)
SumSeq(seq) == IF Len(seq) = 0 THEN 0 ELSE seq[1] + SumSeq(Tail(seq))

SumOver(seq, Term(_)) == SumSeq([k \in 1..Len(seq) |-> Term(seq[k])])

\* getMetrics: the performance averages over the last 7 reports and the
\* number of sockets; the targets and the other realtime figures are
\* random samples that no state depends on.
getMetrics ==
    LET recentReports == LastOf(getReports, 7)
        n == Len(recentReports)
        RateTenths(r) == IF "tenths" \in DOMAIN r.summary.successRate
                         THEN r.summary.successRate.tenths ELSE 0
        Efficiency(r) == IF "value" \in DOMAIN r.performance.efficiency
                         THEN r.performance.efficiency.value ELSE 0
        AverageTime(r) == r.performance.averageTime
        Total(r) == r.summary.total
        Failed(r) == r.summary.failed
        totalTasks == SumOver(recentReports, Total)
    IN  [performance |->
           [successRate |-> IF n > 0 THEN Round(SumOver(recentReports, RateTenths), 10 * n) ELSE 0,
            efficiency |-> IF n > 0 THEN Round(SumOver(recentReports, Efficiency), n) ELSE 0,
            averageTaskTime |-> IF n = 0 THEN 0 ELSE Round(SumOver(recentReports, AverageTime), n),
            errorRate |-> IF n = 0 THEN 0
                          ELSE IF totalTasks > 0
                               THEN Round(100 * SumOver(recentReports, Failed), totalTasks)
                               ELSE 0],
         realtime |-> [activeConnections |-> Cardinality(clients)]]

\* getTeamStatus: a random activity sample per member of the team
\* configuration, or {} when the file cannot be read; no state depends on
\* it.
getTeamStatus == [sampledFrom |-> "config/team-assignments.json"]

\* The message of broadcastUpdate.
UpdateMessage(m, t) ==
    [type |-> "update", timestamp |-> t,
     data |-> [status |-> getSystemStatus(m, t), metrics |-> getMetrics, team |-> getTeamStatus]]

\* broadcastUpdate that sends to every client of the set, whatever its
\* readyState.
broadcastUpdateIgnoresReadyState(m, t) ==
    IF clients = {}
    THEN clients' = clients /\ outbox' = outbox
    ELSE \E failing \in SUBSET clients :
           /\ outbox' = [c \in ClientIds |->
                           IF c \in clients /\ c \notin failing
                           THEN Append(outbox[c], UpdateMessage(m, t))
                           ELSE outbox[c]]
           /\ clients' = clients \ failing

\* broadcastUpdate in which a send that throws ends the whole broadcast: the
\* failing clients are deleted and no client is sent the update.
broadcastUpdateAbortsOnFailure(m, t) ==
    IF clients = {}
    THEN clients' = clients /\ outbox' = outbox
    ELSE \E failing \in SUBSET {c \in clients : readyState[c] = "OPEN"} :
           /\ outbox' = [c \in ClientIds |->
                           IF c \in clients /\ readyState[c] = "OPEN" /\ failing = {}
                           THEN Append(outbox[c], UpdateMessage(m, t))
                           ELSE outbox[c]]
           /\ clients' = clients \ failing

\* broadcastUpdate with the metrics m at the time t: nothing without
\* clients; else every OPEN client is sent the update, and a client whose
\* send throws is deleted from the set.
broadcastUpdate(m, t) ==
    IF clients = {}
    THEN clients' = clients /\ outbox' = outbox
    ELSE \E failing \in SUBSET {c \in clients : readyState[c] = "OPEN"} :
           /\ outbox' = [c \in ClientIds |->
                           IF c \in clients /\ readyState[c] = "OPEN" /\ c \notin failing
                           THEN Append(outbox[c], UpdateMessage(m, t))
                           ELSE outbox[c]]
           /\ clients' = clients \ failing

\* addAlert's alertWithTimestamp.
Stamped(alert, t) ==
    [level |-> alert.level, message |-> alert.message, component |-> alert.component,
     timestamp |-> t, id |-> t]

\* AlertsAfter that pushes the alert at the end of the list.
AlertsAfterPush(alerts, stamped) ==
    LET list == Append(alerts, stamped)
    IN  IF Len(list) > AlertCap THEN SubSeq(list, 1, AlertCap) ELSE list

\* AlertsAfter that keeps the last AlertCap elements of the list.
AlertsAfterKeepsTail(alerts, stamped) ==
    LET list == <<stamped>> \o alerts
    IN  IF Len(list) > AlertCap THEN SubSeq(list, Len(list) - AlertCap + 1, Len(list)) ELSE list

\* metrics.alerts after addAlert: unshift, then slice(0, 50) when longer.
AlertsAfter(alerts, stamped) ==
    LET list == <<stamped>> \o alerts
    IN  IF Len(list) > AlertCap THEN SubSeq(list, 1, AlertCap) ELSE list

\* addAlert that broadcasts first and inserts the alert afterwards.
addAlertBroadcastsFirst(m, alert, t) ==
    LET after == [m EXCEPT !.alerts = AlertsAfter(m.alerts, Stamped(alert, t))]
    IN  /\ metrics' = after
        /\ inserted' = Append(inserted, Stamped(alert, t))
        /\ broadcastUpdate(m, t)

\* addAlert(alert) at the time t, on the metrics m its caller has set.
addAlert(m, alert, t) ==
    LET after == [m EXCEPT !.alerts = AlertsAfter(m.alerts, Stamped(alert, t))]
    IN  /\ metrics' = after
        /\ inserted' = Append(inserted, Stamped(alert, t))
        /\ broadcastUpdate(after, t)

WarningAlert ==
    [level |-> "warning", message |-> [text |-> "High memory usage detected"],
     component |-> "automation-engine"]

ErrorAlert ==
    [level |-> "error", message |-> [text |-> "Task execution timeout"],
     component |-> "task-executor"]

InfoAlert(m) ==
    [level |-> "info",
     message |-> [text |-> "Task completed successfully",
                  completed |-> m.tasksCompleted, total |-> m.tasksTotal],
     component |-> "task-executor"]

\* HealthTick whose error outcome sets the health state without an alert.
HealthTickErrorWithoutAlert ==
    /\ ticks < MaxTicks
    /\ ticks' = ticks + 1
    /\ \E advance \in 0..1, r1 \in Rand, r2 \in Rand :
         LET t == dclock + advance
         IN  /\ dclock' = t
             /\ IF 20 * r1 < RandSteps
                THEN addAlert([metrics EXCEPT !.systemHealth = "warning"], WarningAlert, t)
                ELSE IF 50 * r2 < RandSteps
                     THEN /\ metrics' = [metrics EXCEPT !.systemHealth = "error"]
                          /\ UNCHANGED <<inserted, clients, outbox>>
                     ELSE /\ metrics' = [metrics EXCEPT !.systemHealth = "healthy"]
                          /\ UNCHANGED <<inserted, clients, outbox>>
    /\ UNCHANGED <<readyState, response>>
    /\ UNCHANGED <<engineVars, toolVars>>

(***************************************************************************)
(* The 60-second timer of startMetricSimulation. The clock has advanced    *)
(* since the previous callback, or not (two timers due at the same time).  *)
(***************************************************************************)
HealthTick ==
    /\ ticks < MaxTicks
    /\ ticks' = ticks + 1
    /\ \E advance \in 0..1, r1 \in Rand, r2 \in Rand :
         LET t == dclock + advance
         IN  /\ dclock' = t
             /\ IF 20 * r1 < RandSteps
                THEN addAlert([metrics EXCEPT !.systemHealth = "warning"], WarningAlert, t)
                ELSE IF 50 * r2 < RandSteps
                     THEN addAlert([metrics EXCEPT !.systemHealth = "error"], ErrorAlert, t)
                     ELSE /\ metrics' = [metrics EXCEPT !.systemHealth = "healthy"]
                          /\ UNCHANGED <<inserted, clients, outbox>>
    /\ UNCHANGED <<readyState, response>>
    /\ UNCHANGED <<engineVars, toolVars>>

(***************************************************************************)
(* The 30-second timer of startMetricSimulation.                           *)
(***************************************************************************)
TaskTick ==
    /\ ticks < MaxTicks
    /\ ticks' = ticks + 1
    /\ \E advance \in 0..1, r \in Rand :
         LET t == dclock + advance
             counted == [metrics EXCEPT !.tasksCompleted = @ + 1]
         IN  /\ dclock' = t
             /\ IF 10 * r < RandSteps
                THEN IF counted.tasksCompleted <= counted.tasksTotal
                     THEN addAlert(counted, InfoAlert(counted), t)
                     ELSE /\ metrics' = counted
                          /\ UNCHANGED <<inserted, clients, outbox>>
                ELSE UNCHANGED <<metrics, inserted, clients, outbox>>
    /\ UNCHANGED <<readyState, response>>
    /\ UNCHANGED <<engineVars, toolVars>>

(***************************************************************************)
(* The alert list on its own: the dashboard after n health alerts have     *)
(* been inserted, one per clock step, with any sockets connected, from     *)
(* where MaxTicks timer callbacks run.                                     *)
(***************************************************************************)
PrefillCounts == 0..MaxPrefill

PrefillAlert(k) == Stamped(IF k % 2 = 1 THEN WarningAlert ELSE ErrorAlert, k)

\* The list after addAlert has been called with PrefillAlert(a), ...,
\* PrefillAlert(b) in this order, one call after the other (the first half
\* of the calls is evaluated before the second half is applied to it).
RECURSIVE AlertsAfterCalls(_, _, _)
AlertsAfterCalls(alerts, a, b) ==
    IF a > b THEN alerts
    ELSE IF a = b THEN AlertsAfter(alerts, PrefillAlert(a))
    ELSE LET mid == (a + b) \div 2
             firstHalf == AlertsAfterCalls(alerts, a, mid)
         IN  IF Len(firstHalf) >= 0 THEN AlertsAfterCalls(firstHalf, mid + 1, b) ELSE <<>>

\* metrics.alerts after addAlert has been called with PrefillAlert(1..n).
PrefilledAlerts(n) == AlertsAfterCalls(<<>>, 1, n)

AlertInit ==
    /\ now = 0
    /\ slackWebhook = Null
    /\ pc = "notStarted"
    /\ idx = 1
    /\ results = <<>>
    /\ thrown = NoError
    /\ sent = <<>>
    /\ log = <<>>
    /\ reports = <<>>
    /\ exitCode = <<>>
    /\ calls = <<>>
    /\ writes = <<>>
    /\ \E n \in PrefillCounts :
         /\ inserted = [k \in 1..n |-> PrefillAlert(k)]
         /\ metrics = [tasksCompleted |-> 0, tasksTotal |-> TasksTotal,
                       systemHealth |-> "healthy", alerts |-> PrefilledAlerts(n)]
         /\ dclock = n
    /\ clients \in SUBSET ClientIds
    /\ readyState \in [ClientIds -> {"OPEN", "CLOSING", "CLOSED"}]
    /\ \A c \in ClientIds : (c \in clients) <=> (readyState[c] # "CLOSED")
    /\ outbox = [c \in ClientIds |->
                   IF c \in clients THEN <<InitialMessage(metrics, dclock)>> ELSE <<>>]
    /\ ticks = 0
    /\ response = NoResponse
    /\ ToolsIdle

AlertNext ==
    \/ HealthTick
    \/ TaskTick

AlertSpec == AlertInit /\ [][AlertNext]_vars

(***************************************************************************)
(* The socket events of setupWebSocket. A socket is CONNECTING until the   *)
(* server's connection event, OPEN from then on, CLOSING once either side  *)
(* has started the closing handshake or an error has torn it down, and     *)
(* CLOSED at its close event.                                              *)
(***************************************************************************)
\* Connect that adds the socket to the set without sending the snapshot.
ConnectWithoutSnapshot(c) ==
    /\ readyState[c] = "CONNECTING"
    /\ readyState' = [readyState EXCEPT ![c] = "OPEN"]
    /\ clients' = clients \cup {c}
    /\ UNCHANGED <<metrics, outbox, dclock, ticks, inserted, response>>
    /\ UNCHANGED <<engineVars, toolVars>>

\* wss.on('connection'): the socket joins the set and is sent the initial
\* message.
Connect(c) ==
    /\ readyState[c] = "CONNECTING"
    /\ readyState' = [readyState EXCEPT ![c] = "OPEN"]
    /\ clients' = clients \cup {c}
    /\ outbox' = [outbox EXCEPT ![c] = Append(@, InitialMessage(metrics, dclock))]
    /\ UNCHANGED <<metrics, dclock, ticks, inserted, response>>
    /\ UNCHANGED <<engineVars, toolVars>>

\* The closing handshake starts: the socket is no longer OPEN, its close
\* event has not fired yet.
SocketClosing(c) ==
    /\ readyState[c] = "OPEN"
    /\ readyState' = [readyState EXCEPT ![c] = "CLOSING"]
    /\ UNCHANGED <<metrics, clients, outbox, dclock, ticks, inserted, response>>
    /\ UNCHANGED <<engineVars, toolVars>>

\* The close event without the handler's delete: the closed socket stays in
\* the set.
CloseKeepsObserver(c) ==
    /\ readyState[c] \in {"OPEN", "CLOSING"}
    /\ readyState' = [readyState EXCEPT ![c] = "CLOSED"]
    /\ UNCHANGED <<metrics, clients, outbox, dclock, ticks, inserted, response>>
    /\ UNCHANGED <<engineVars, toolVars>>

\* ws.on('close').
Close(c) ==
    /\ readyState[c] \in {"OPEN", "CLOSING"}
    /\ readyState' = [readyState EXCEPT ![c] = "CLOSED"]
    /\ clients' = clients \ {c}
    /\ UNCHANGED <<metrics, outbox, dclock, ticks, inserted, response>>
    /\ UNCHANGED <<engineVars, toolVars>>

\* ws.on('error'): the handler deletes the socket; the library closes the
\* socket after an error, its close event follows.
SocketError(c) ==
    /\ readyState[c] = "OPEN"
    /\ readyState' = [readyState EXCEPT ![c] = "CLOSING"]
    /\ clients' = clients \ {c}
    /\ UNCHANGED <<metrics, outbox, dclock, ticks, inserted, response>>
    /\ UNCHANGED <<engineVars, toolVars>>

(***************************************************************************)
(* The 10-second timer of setupWebSocket.                                  *)
(***************************************************************************)
BroadcastTick ==
    /\ ticks < MaxTicks
    /\ ticks' = ticks + 1
    /\ \E advance \in 0..1 :
         /\ dclock' = dclock + advance
         /\ broadcastUpdate(metrics, dclock + advance)
    /\ UNCHANGED <<metrics, readyState, inserted, response>>
    /\ UNCHANGED <<engineVars, toolVars>>

(***************************************************************************)
(* The routes of setupExpress: each answers with res.json.                 *)
(***************************************************************************)
Answer(endpoint, body) ==
    /\ response' = [endpoint |-> endpoint, body |-> body]
    /\ UNCHANGED <<metrics, clients, readyState, outbox, dclock, ticks, inserted>>
    /\ UNCHANGED <<engineVars, toolVars>>

GetStatus == Answer("/api/status", getSystemStatus(metrics, dclock))

GetMetrics == Answer("/api/metrics", getMetrics)

GetReports == Answer("/api/reports", [reports |-> getReports])

GetTeam == Answer("/api/team", getTeamStatus)

\* GetHealth that also sets the health state to the status it reports.
GetHealthResetsHealth ==
    /\ response' = [endpoint |-> "/health",
                    body |-> [status |-> "healthy", uptime |-> dclock, timestamp |-> dclock]]
    /\ metrics' = [metrics EXCEPT !.systemHealth = "healthy"]
    /\ UNCHANGED <<clients, readyState, outbox, dclock, ticks, inserted>>
    /\ UNCHANGED <<engineVars, toolVars>>

GetHealth ==
    Answer("/health", [status |-> "healthy", uptime |-> dclock, timestamp |-> dclock])

(***************************************************************************)
(* The dashboard as a whole: started with the reports directory empty or   *)
(* holding the report of a day-1 run, after no task-simulation tick or     *)
(* after nearly all or all of the 42 that raise the counter with an        *)
(* informational alert each; no socket has connected yet, and the sockets  *)
(* 1..watched are the ones that will.                                      *)
(***************************************************************************)
DashCompleted == {0} \cup {n \in 0..TasksTotal : n + MaxCountBack >= TasksTotal}

DashReport ==
    JsonStringify(DailyReport(0, 1, 1,
        << CompletedResult(Week1Tasks[1], 3),
           BlockedResult(Week1Tasks[2]),
           FailedResult(Week1Tasks[3],
                        Error(<<"Simulated failure during", "Memory", "execution">>)) >>))

CountedAlert(k) ==
    Stamped(InfoAlert([tasksCompleted |-> k, tasksTotal |-> TasksTotal]), k)

\* The list after addAlert has been called with CountedAlert(a), ...,
\* CountedAlert(b) in this order (evaluated by halves, as AlertsAfterCalls).
RECURSIVE AlertsAfterCounted(_, _, _)
AlertsAfterCounted(alerts, a, b) ==
    IF a > b THEN alerts
    ELSE IF a = b THEN AlertsAfter(alerts, CountedAlert(a))
    ELSE LET mid == (a + b) \div 2
             firstHalf == AlertsAfterCounted(alerts, a, mid)
         IN  IF Len(firstHalf) >= 0 THEN AlertsAfterCounted(firstHalf, mid + 1, b) ELSE <<>>

DashStarted(watched) ==
    /\ now = 0
    /\ slackWebhook = Null
    /\ pc = "notStarted"
    /\ idx = 1
    /\ results = <<>>
    /\ thrown = NoError
    /\ sent = <<>>
    /\ log = <<>>
    /\ reports \in {<<>>, (0 :> DashReport)}
    /\ exitCode = <<>>
    /\ calls = <<>>
    /\ writes = <<>>
    /\ \E n \in DashCompleted :
         /\ inserted = [k \in 1..n |-> CountedAlert(k)]
         /\ metrics = [tasksCompleted |-> n, tasksTotal |-> TasksTotal,
                       systemHealth |-> "healthy",
                       alerts |-> AlertsAfterCounted(<<>>, 1, n)]
         /\ dclock = n
    /\ clients = {}
    /\ readyState = [c \in ClientIds |-> IF c <= watched THEN "CONNECTING" ELSE "CLOSED"]
    /\ outbox = [c \in ClientIds |-> <<>>]
    /\ ticks = 0
    /\ response = NoResponse
    /\ ToolsIdle

DashInit == DashStarted(MaxWatched)

DashNext ==
    \/ \E c \in ClientIds : Connect(c)
    \/ \E c \in ClientIds : SocketClosing(c)
    \/ \E c \in ClientIds : Close(c)
    \/ \E c \in ClientIds : SocketError(c)
    \/ BroadcastTick
    \/ HealthTick
    \/ TaskTick
    \/ GetStatus
    \/ GetMetrics
    \/ GetReports
    \/ GetTeam
    \/ GetHealth

DashSpec == DashInit /\ [][DashNext]_vars

(***************************************************************************)
(* The observer channel: every socket connects, the broadcast timer pushes *)
(* updates and the task-simulation timer changes the snapshot in between.  *)
(***************************************************************************)
WatchInit == DashStarted(MaxClients)

WatchNext ==
    \/ \E c \in ClientIds : Connect(c)
    \/ \E c \in ClientIds : SocketClosing(c)
    \/ \E c \in ClientIds : Close(c)
    \/ \E c \in ClientIds : SocketError(c)
    \/ BroadcastTick
    \/ TaskTick

WatchSpec == WatchInit /\ [][WatchNext]_vars

(***************************************************************************)
(* The engine before main has been started.                                *)
(***************************************************************************)
EngineIdle ==
    /\ now = 0
    /\ slackWebhook = Null
    /\ pc = "notStarted"
    /\ idx = 1
    /\ results = <<>>
    /\ thrown = NoError
    /\ sent = <<>>
    /\ log = <<>>
    /\ reports = <<>>
    /\ exitCode = <<>>
    /\ calls = <<>>
    /\ writes = <<>>

(***************************************************************************)
(* simulateTaskExecution's choice of the task type for any task name. A    *)
(* name is the string made of its pieces one after the other: the seven    *)
(* type keywords, a word that holds none of them, the lower-case           *)
(* spelling of one and a plural ending; name.includes(type) holds exactly  *)
(* when the keyword is one of the pieces (no keyword starts inside one     *)
(* piece and ends in the next).                                            *)
(***************************************************************************)
NamePieces ==
    {taskTypes[k].type : k \in 1..Len(taskTypes)} \cup {"Service", "memory", "s"}

TaskNames == UNION {[1..n -> NamePieces] : n \in 0..MaxNamePieces}

ClassifyInit ==
    /\ EngineIdle
    /\ DashboardConstructed
    /\ DeployIdle
    /\ taskName \in TaskNames
    /\ taskType = "undetermined"

\* let taskType = 'Schema'; for (const type in taskTypes) ... break
DetermineTaskType ==
    /\ taskType = "undetermined"
    /\ taskType' = taskTypes[TaskTypeIndex(taskName)].type
    /\ UNCHANGED <<taskName, deployVars, engineVars, dashVars>>

ClassifyNext == DetermineTaskType

ClassifySpec == ClassifyInit /\ [][ClassifyNext]_vars

(***************************************************************************)
(* The blueprint deployment script, scripts/make-deploy.js.                *)
(***************************************************************************)
\* A line of the input: a path, or a line of white space only.
BlankLine == ""

InputLines == Paths \cup {BlankLine}

\* What makeApiRequest can end with: the request fails, or the response has
\* a status code and a body that parses as JSON or does not.
ApiReplies ==
    {[requestFailed |-> TRUE]}
        \cup [statusCode : {200, 302, 500}, parses : BOOLEAN]

Failure(filePath, error) == [success |-> FALSE, filePath |-> filePath, error |-> error]

\* makeApiRequest followed by the rest of deployBlueprint's try block, for
\* the reply of the API.
Imported(filePath, reply) ==
    IF "requestFailed" \in DOMAIN reply THEN Failure(filePath, "Request failed")
    ELSE IF ~reply.parses THEN Failure(filePath, "Failed to parse response")
    ELSE IF reply.statusCode >= 400 THEN Failure(filePath, "HTTP error status")
    ELSE [success |-> TRUE, filePath |-> filePath, scenarioId |-> "unknown",
          statusCode |-> reply.statusCode]

DeployInit ==
    /\ EngineIdle
    /\ DashboardConstructed
    /\ SimIdle
    /\ makeEnv \in BOOLEAN
    /\ isTTY \in BOOLEAN
    /\ stdinData \in UNION {[1..n -> InputLines] : n \in 0..MaxLines}
    /\ isTTY => stdinData = <<>>
    /\ fileSystem \in [Paths -> {"missing", "invalid", "blueprint"}]
    /\ deployPc = "start"
    /\ filePaths = <<>>
    /\ fileIdx = 1
    /\ deployResults = <<>>
    /\ requests = <<>>
    /\ deployExit = <<>>

\* The validation of the environment variables when the script is loaded.
CheckEnvironment ==
    /\ deployPc = "start"
    /\ IF makeEnv
       THEN deployPc' = "main" /\ deployExit' = deployExit
       ELSE deployPc' = "exited" /\ deployExit' = <<1>>
    /\ UNCHANGED <<makeEnv, isTTY, stdinData, fileSystem, filePaths, fileIdx,
                   deployResults, requests>>
    /\ UNCHANGED <<engineVars, dashVars, simVars>>

\* main up to the loop: the input is read, split into lines and the blank
\* lines are dropped; without any path main resolves and the process ends.
ReadInput ==
    /\ deployPc = "main"
    /\ IF isTTY
       THEN /\ deployPc' = "exited"
            /\ deployExit' = <<1>>
            /\ filePaths' = filePaths
       ELSE LET paths == SelectSeq(stdinData, LAMBDA line : line # BlankLine)
            IN  /\ filePaths' = paths
                /\ IF Len(paths) = 0
                   THEN deployPc' = "exited" /\ deployExit' = <<0>>
                   ELSE deployPc' = "deploying" /\ deployExit' = deployExit
    /\ UNCHANGED <<makeEnv, isTTY, stdinData, fileSystem, fileIdx, deployResults, requests>>
    /\ UNCHANGED <<engineVars, dashVars, simVars>>

\* DeployBlueprint after which the loop is left at the first failure.
DeployBlueprintStopsAtFailure ==
    /\ deployPc = "deploying"
    /\ LET filePath == filePaths[fileIdx]
       IN  \E reply \in ApiReplies :
             LET result ==
                   IF fileSystem[filePath] = "missing"
                   THEN Failure(filePath, "File not found")
                   ELSE IF fileSystem[filePath] = "invalid"
                        THEN Failure(filePath, "Invalid JSON")
                        ELSE Imported(filePath, reply)
             IN  /\ deployResults' = Append(deployResults, result)
                 /\ requests' = IF fileSystem[filePath] = "blueprint"
                                THEN Append(requests, filePath) ELSE requests
                 /\ fileIdx' = fileIdx + 1
                 /\ deployPc' = IF fileIdx + 1 <= Len(filePaths) /\ result.success
                                THEN "deploying" ELSE "summary"
    /\ UNCHANGED <<makeEnv, isTTY, stdinData, fileSystem, filePaths, deployExit>>
    /\ UNCHANGED <<engineVars, dashVars, simVars>>

\* One iteration of main's loop: deployBlueprint(filePath), which catches
\* every error and returns a result, and results.push.
DeployBlueprint ==
    /\ deployPc = "deploying"
    /\ LET filePath == filePaths[fileIdx]
       IN  \E reply \in ApiReplies :
             LET result ==
                   IF fileSystem[filePath] = "missing"
                   THEN Failure(filePath, "File not found")
                   ELSE IF fileSystem[filePath] = "invalid"
                        THEN Failure(filePath, "Invalid JSON")
                        ELSE Imported(filePath, reply)
             IN  /\ deployResults' = Append(deployResults, result)
                 /\ requests' = IF fileSystem[filePath] = "blueprint"
                                THEN Append(requests, filePath) ELSE requests
                 /\ fileIdx' = fileIdx + 1
                 /\ deployPc' = IF fileIdx + 1 <= Len(filePaths)
                                THEN "deploying" ELSE "summary"
    /\ UNCHANGED <<makeEnv, isTTY, stdinData, fileSystem, filePaths, deployExit>>
    /\ UNCHANGED <<engineVars, dashVars, simVars>>

\* main after the loop: process.exit(1) when failureCount > 0, else main
\* resolves and the process ends.
failureCount == Cardinality({k \in 1..Len(deployResults) : ~deployResults[k].success})

DeploySummary ==
    /\ deployPc = "summary"
    /\ deployExit' = IF failureCount > 0 THEN <<1>> ELSE <<0>>
    /\ deployPc' = "exited"
    /\ UNCHANGED <<makeEnv, isTTY, stdinData, fileSystem, filePaths, fileIdx,
                   deployResults, requests>>
    /\ UNCHANGED <<engineVars, dashVars, simVars>>

DeployNext ==
    \/ CheckEnvironment
    \/ ReadInput
    \/ DeployBlueprint
    \/ DeploySummary

DeploySpec == DeployInit /\ [][DeployNext]_vars

Init ==
    /\ now \in (0 - MaxBefore)..MaxAfter
    /\ slackWebhook \in {Null, "IncomingWebhook"}
    /\ pc = "startup"
    /\ idx = 1
    /\ results = <<>>
    /\ thrown = NoError
    /\ sent = <<>>
    /\ log = <<>>
    /\ reports = <<>>
    /\ exitCode = <<>>
    /\ calls = <<>>
    /\ writes = <<>>
    /\ DashboardConstructed
    /\ ToolsIdle

(***************************************************************************)
(* executeDaily up to the call of executeTasks: the startup notification.  *)
(***************************************************************************)
SendStartup ==
    /\ pc = "startup"
    /\ \E delivered \in BOOLEAN : sendSlackNotification(log, StartupMessage, delivered)
    /\ idx' = 1
    /\ pc' = IF Len(tasksForToday) >= 1 THEN "executeTask" ELSE "report"
    /\ UNCHANGED <<now, slackWebhook, results, thrown, reports, writes, exitCode, calls>>
    /\ UNCHANGED <<dashVars, toolVars>>

\* ExecuteTask that starts executeTask for every task from idx on at once and
\* goes on with the task at idx.
ExecuteTaskStartsAll ==
    /\ pc = "executeTask"
    /\ \E r \in Rand :
         LET task == tasksForToday[idx]
             dependenciesReady == checkDependencies(task.deps, r)
             started == [k \in 1..(Len(tasksForToday) - idx + 1) |->
                            <<"executeTask", tasksForToday[idx + k - 1].id>>]
         IN  IF ~dependenciesReady
             THEN /\ results' = Append(results, BlockedResult(task))
                  /\ calls' = calls \o started
                  /\ pc' = "notify"
             ELSE /\ results' = results
                  /\ calls' = calls \o started \o << <<"simulateTaskExecution", task.id>> >>
                  /\ pc' = "running"
    /\ UNCHANGED <<now, slackWebhook, idx, thrown, sent, log, reports, writes, exitCode>>
    /\ UNCHANGED <<dashVars, toolVars>>

\* ExecuteTask whose blocked result is pushed twice.
ExecuteTaskPushesTwice ==
    /\ pc = "executeTask"
    /\ \E r \in Rand :
         LET task == tasksForToday[idx]
             dependenciesReady == checkDependencies(task.deps, r)
         IN  IF ~dependenciesReady
             THEN /\ results' = results \o <<BlockedResult(task), BlockedResult(task)>>
                  /\ calls' = Append(calls, <<"executeTask", task.id>>)
                  /\ pc' = "notify"
             ELSE /\ results' = results
                  /\ calls' = calls \o << <<"executeTask", task.id>>,
                                         <<"simulateTaskExecution", task.id>> >>
                  /\ pc' = "running"
    /\ UNCHANGED <<now, slackWebhook, idx, thrown, sent, log, reports, writes, exitCode>>
    /\ UNCHANGED <<dashVars, toolVars>>

(***************************************************************************)
(* executeTask up to the call of simulateTaskExecution: the dependency     *)
(* gate.  A task that is not ready gets its blocked result, which          *)
(* executeTasks pushes.                                                    *)
(***************************************************************************)
ExecuteTask ==
    /\ pc = "executeTask"
    /\ \E r \in Rand :
         LET task == tasksForToday[idx]
             dependenciesReady == checkDependencies(task.deps, r)
         IN  IF ~dependenciesReady
             THEN /\ results' = Append(results, BlockedResult(task))
                  /\ calls' = Append(calls, <<"executeTask", task.id>>)
                  /\ pc' = "notify"
             ELSE /\ results' = results
                  /\ calls' = calls \o << <<"executeTask", task.id>>,
                                         <<"simulateTaskExecution", task.id>> >>
                  /\ pc' = "running"
    /\ UNCHANGED <<now, slackWebhook, idx, thrown, sent, log, reports, writes, exitCode>>
    /\ UNCHANGED <<dashVars, toolVars>>

\* SimulateTaskExecution after which executeTasks goes straight to the
\* pause, without the notification of the completed task.
SimulateTaskExecutionSkipsNotification ==
    /\ pc = "running"
    /\ \E rTime \in Rand, rFail \in Rand :
         LET task == tasksForToday[idx]
             config == taskTypes[TaskTypeIndex(task.name)]
             executionTime == config.baseTime + (rTime * config.variance) \div RandSteps
         IN  IF FailureDrawn(rFail)
             THEN /\ thrown' = Error(<<"Simulated failure during", config.type, "execution">>)
                  /\ pc' = "taskCatch"
                  /\ UNCHANGED <<results, log>>
             ELSE /\ results' = Append(results, CompletedResult(task, executionTime \div 1000))
                  /\ log' = Append(log, Line("taskCompleted", <<task.id>>))
                  /\ pc' = "pause"
                  /\ thrown' = thrown
    /\ UNCHANGED <<now, slackWebhook, idx, sent, reports, writes, exitCode, calls>>
    /\ UNCHANGED <<dashVars, toolVars>>

(***************************************************************************)
(* simulateTaskExecution and the rest of executeTask's try block: the      *)
(* simulator throws, or sleeps for the execution time and the completed    *)
(* result is returned and pushed.                                          *)
(***************************************************************************)
SimulateTaskExecution ==
    /\ pc = "running"
    /\ \E rTime \in Rand, rFail \in Rand :
         LET task == tasksForToday[idx]
             config == taskTypes[TaskTypeIndex(task.name)]
             executionTime == config.baseTime + (rTime * config.variance) \div RandSteps
         IN  IF FailureDrawn(rFail)
             THEN /\ thrown' = Error(<<"Simulated failure during", config.type, "execution">>)
                  /\ pc' = "taskCatch"
                  /\ UNCHANGED <<results, log>>
             ELSE /\ results' = Append(results, CompletedResult(task, executionTime \div 1000))
                  /\ log' = Append(log, Line("taskCompleted", <<task.id>>))
                  /\ pc' = "notify"
                  /\ thrown' = thrown
    /\ UNCHANGED <<now, slackWebhook, idx, sent, reports, writes, exitCode, calls>>
    /\ UNCHANGED <<dashVars, toolVars>>

\* ExecuteTaskCatch that runs the task again instead of recording the failure.
ExecuteTaskCatchRetries ==
    /\ pc = "taskCatch"
    /\ thrown' = NoError
    /\ pc' = "executeTask"
    /\ UNCHANGED <<now, slackWebhook, idx, results, sent, log, reports, writes, exitCode, calls>>
    /\ UNCHANGED <<dashVars, toolVars>>

\* ExecuteTaskCatch that rethrows: the error leaves executeTasks and executeDaily.
ExecuteTaskCatchRethrows ==
    /\ pc = "taskCatch"
    /\ pc' = "catch"
    /\ UNCHANGED <<now, slackWebhook, idx, results, thrown, sent, log, reports, writes, exitCode, calls>>
    /\ UNCHANGED <<dashVars, toolVars>>

(***************************************************************************)
(* The catch block of executeTask.                                         *)
(***************************************************************************)
ExecuteTaskCatch ==
    /\ pc = "taskCatch"
    /\ results' = Append(results, FailedResult(tasksForToday[idx], thrown))
    /\ log' = Append(log, Line("taskFailed", <<tasksForToday[idx].id>>))
    /\ thrown' = NoError
    /\ pc' = "notify"
    /\ UNCHANGED <<now, slackWebhook, idx, sent, reports, writes, exitCode, calls>>
    /\ UNCHANGED <<dashVars, toolVars>>

(***************************************************************************)
(* sendTaskNotification(task, result), awaited by executeTasks outside     *)
(* any try block: a rejected send leaves executeTasks and executeDaily.    *)
(***************************************************************************)
SendTaskNotification ==
    /\ pc = "notify"
    /\ IF slackWebhook = Null
       THEN /\ pc' = "pause"
            /\ UNCHANGED <<sent, thrown>>
       ELSE \E delivered \in BOOLEAN :
              /\ WebhookSend(TaskMessage(tasksForToday[idx], results[Len(results)]), delivered)
              /\ IF delivered
                 THEN pc' = "pause" /\ thrown' = thrown
                 ELSE pc' = "catch" /\ thrown' = SendError
    /\ UNCHANGED <<now, slackWebhook, idx, results, log, reports, writes, exitCode, calls>>
    /\ UNCHANGED <<dashVars, toolVars>>

\* Pause with the loop bound off by one: the loop is left before the last task.
PauseLeavesEarly ==
    /\ pc = "pause"
    /\ idx' = idx + 1
    /\ pc' = IF idx + 1 < Len(tasksForToday) THEN "executeTask" ELSE "report"
    /\ UNCHANGED <<now, slackWebhook, results, thrown, sent, log, reports, writes, exitCode, calls>>
    /\ UNCHANGED <<dashVars, toolVars>>

(***************************************************************************)
(* sleep(2000) and the step of the for loop.                               *)
(***************************************************************************)
Pause ==
    /\ pc = "pause"
    /\ idx' = idx + 1
    /\ pc' = IF idx + 1 <= Len(tasksForToday) THEN "executeTask" ELSE "report"
    /\ UNCHANGED <<now, slackWebhook, results, thrown, sent, log, reports, writes, exitCode, calls>>
    /\ UNCHANGED <<dashVars, toolVars>>

\* GenerateDailyReport that goes on to the notification when the write fails.
GenerateDailyReportIgnoresWrite ==
    /\ pc = "report"
    /\ \E written \in BOOLEAN :
         IF written
         THEN /\ reports' = (Today :> JsonStringify(DailyReport(Today, currentDay, currentWeek, results))) @@ reports
              /\ writes' = Append(writes, [date |-> Today, text |-> JsonStringify(DailyReport(Today, currentDay, currentWeek, results))])
              /\ pc' = "reportNotify"
              /\ thrown' = thrown
         ELSE /\ reports' = (Today :> JsonStringify(DailyReport(Today, currentDay, currentWeek, results))) @@ reports
              /\ writes' = Append(writes, [date |-> Today, text |-> JsonStringify(DailyReport(Today, currentDay, currentWeek, results))])
              /\ pc' = "reportNotify"
              /\ thrown' = PersistError
    /\ UNCHANGED <<now, slackWebhook, idx, results, sent, log, exitCode, calls>>
    /\ UNCHANGED <<dashVars, toolVars>>

\* GenerateDailyReport that leaves the file of a date alone once it exists.
GenerateDailyReportKeepsExisting ==
    /\ pc = "report"
    /\ \E written \in BOOLEAN :
         IF written
         THEN /\ reports' = reports @@ (Today :> JsonStringify(DailyReport(Today, currentDay, currentWeek, results)))
              /\ writes' = Append(writes, [date |-> Today, text |-> JsonStringify(DailyReport(Today, currentDay, currentWeek, results))])
              /\ pc' = "reportNotify"
              /\ thrown' = thrown
         ELSE /\ reports' = reports
              /\ writes' = writes
              /\ pc' = "catch"
              /\ thrown' = PersistError
    /\ UNCHANGED <<now, slackWebhook, idx, results, sent, log, exitCode, calls>>
    /\ UNCHANGED <<dashVars, toolVars>>

(***************************************************************************)
(* generateDailyReport up to fs.writeFileSync, which writes the file of    *)
(* the date or throws.                                                     *)
(***************************************************************************)
GenerateDailyReport ==
    /\ pc = "report"
    /\ \E written \in BOOLEAN :
         IF written
         THEN /\ reports' = (Today :> JsonStringify(DailyReport(Today, currentDay, currentWeek, results))) @@ reports
              /\ writes' = Append(writes, [date |-> Today, text |-> JsonStringify(DailyReport(Today, currentDay, currentWeek, results))])
              /\ pc' = "reportNotify"
              /\ thrown' = thrown
         ELSE /\ reports' = reports
              /\ writes' = writes
              /\ pc' = "catch"
              /\ thrown' = PersistError
    /\ UNCHANGED <<now, slackWebhook, idx, results, sent, log, exitCode, calls>>
    /\ UNCHANGED <<dashVars, toolVars>>

(***************************************************************************)
(* sendDailyReportToSlack: the report message.                             *)
(***************************************************************************)
SendDailyReportToSlack ==
    /\ pc = "reportNotify"
    /\ LET report == DailyReport(Today, currentDay, currentWeek, results)
       IN  IF slackWebhook = Null
           THEN /\ pc' = "cycleComplete"
                /\ UNCHANGED <<sent, thrown>>
           ELSE \E delivered \in BOOLEAN :
                  /\ WebhookSend(ReportMessage(report), delivered)
                  /\ IF ~delivered
                     THEN pc' = "catch" /\ thrown' = SendError
                     ELSE /\ thrown' = thrown
                          /\ pc' = IF report.summary.failed > 0 \/ report.summary.blocked > 0
                                   THEN "alertNotify" ELSE "cycleComplete"
    /\ UNCHANGED <<now, slackWebhook, idx, results, log, reports, writes, exitCode, calls>>
    /\ UNCHANGED <<dashVars, toolVars>>

(***************************************************************************)
(* sendDailyReportToSlack: the batched alert for failed or blocked tasks.  *)
(***************************************************************************)
SendAlerts ==
    /\ pc = "alertNotify"
    /\ \E delivered \in BOOLEAN :
         /\ WebhookSend(AlertMessage(results), delivered)
         /\ IF delivered
            THEN pc' = "cycleComplete" /\ thrown' = thrown
            ELSE pc' = "catch" /\ thrown' = SendError
    /\ UNCHANGED <<now, slackWebhook, idx, results, log, reports, writes, exitCode, calls>>
    /\ UNCHANGED <<dashVars, toolVars>>

(***************************************************************************)
(* The end of executeDaily and main's process.exit(0).                     *)
(***************************************************************************)
ExitSuccess ==
    /\ pc = "cycleComplete"
    /\ log' = log \o <<Line("cycleComplete", <<>>), Line("automationCompleted", <<>>)>>
    /\ exitCode' = <<0>>
    /\ pc' = "exited"
    /\ UNCHANGED <<now, slackWebhook, idx, results, thrown, sent, reports, writes, calls>>
    /\ UNCHANGED <<dashVars, toolVars>>

\* MainCatch that ends with process.exit(0).
MainCatchExitsZero ==
    /\ pc = "catch"
    /\ LET lines == Append(log, Line("automationFailed", thrown.message))
       IN  IF slackWebhook # Null
           THEN \E delivered \in BOOLEAN :
                  sendSlackNotification(lines, ErrorMessage(thrown), delivered)
           ELSE log' = lines /\ sent' = sent
    /\ exitCode' = <<0>>
    /\ pc' = "exited"
    /\ UNCHANGED <<now, slackWebhook, idx, results, thrown, reports, writes, calls>>
    /\ UNCHANGED <<dashVars, toolVars>>

\* MainCatch that sends the error notification a second time when the
\* first delivery fails.
MainCatchSendsAgain ==
    /\ pc = "catch"
    /\ LET lines == Append(log, Line("automationFailed", thrown.message))
           message == ErrorMessage(thrown)
       IN  IF slackWebhook # Null
           THEN \E delivered \in BOOLEAN, again \in BOOLEAN :
                  IF delivered
                  THEN sendSlackNotification(lines, message, TRUE)
                  ELSE /\ sent' = sent \o <<[message |-> message, delivered |-> FALSE],
                                            [message |-> message, delivered |-> again]>>
                       /\ log' = lines \o <<Line("sendFailed", message.text),
                                            Line(IF again THEN "sent" ELSE "sendFailed", message.text)>>
           ELSE log' = lines /\ sent' = sent
    /\ exitCode' = <<1>>
    /\ pc' = "exited"
    /\ UNCHANGED <<now, slackWebhook, idx, results, thrown, reports, writes, calls>>
    /\ UNCHANGED <<dashVars, toolVars>>

(***************************************************************************)
(* The catch block of main: the error notification, when the webhook is    *)
(* configured, and process.exit(1).                                        *)
(***************************************************************************)
MainCatch ==
    /\ pc = "catch"
    /\ LET lines == Append(log, Line("automationFailed", thrown.message))
       IN  IF slackWebhook # Null
           THEN \E delivered \in BOOLEAN :
                  sendSlackNotification(lines, ErrorMessage(thrown), delivered)
           ELSE log' = lines /\ sent' = sent
    /\ exitCode' = <<1>>
    /\ pc' = "exited"
    /\ UNCHANGED <<now, slackWebhook, idx, results, thrown, reports, writes, calls>>
    /\ UNCHANGED <<dashVars, toolVars>>

Next ==
    \/ SendStartup
    \/ ExecuteTask
    \/ SimulateTaskExecution
    \/ ExecuteTaskCatch
    \/ SendTaskNotification
    \/ Pause
    \/ GenerateDailyReport
    \/ SendDailyReportToSlack
    \/ SendAlerts
    \/ ExitSuccess
    \/ MainCatch

Spec == Init /\ [][Next]_vars

(***************************************************************************)
(* The Report Aggregator on its own: generateDailyReport(day, week,        *)
(* results) is handed a result set of up to MaxResults results, each one   *)
(* of the three result objects of executeTask, a completed one with a      *)
(* duration of AggDurations (seconds, below and above expectedTime). The   *)
(* durations keep the scores off the ties x.5, where the rounding of the   *)
(* double differs from the rounding of the exact value.                    *)
(***************************************************************************)
AggDurations == {(k * k * (ExpectedTime - 1)) \div 2 : k \in 0..MaxDurationSteps}

AggOutcomes ==
    {[status |-> "blocked"], [status |-> "failed"]}
        \cup {[status |-> "completed", duration |-> d] : d \in AggDurations}

AggResult(task, outcome) ==
    IF outcome.status = "blocked" THEN BlockedResult(task)
    ELSE IF outcome.status = "failed"
         THEN FailedResult(task, Error(<<"Simulated failure during",
                                         taskTypes[TaskTypeIndex(task.name)].type,
                                         "execution">>))
         ELSE CompletedResult(task, outcome.duration)

AggResults ==
    UNION {{[k \in 1..n |-> AggResult(Week1Tasks[k], outcomes[k])] :
               outcomes \in [1..n -> AggOutcomes]} : n \in 0..MaxResults}

AggInit ==
    /\ now = 0
    /\ slackWebhook \in {Null, "IncomingWebhook"}
    /\ pc = "report"
    /\ results \in AggResults
    /\ idx = Len(results) + 1
    /\ thrown = NoError
    /\ sent = <<>>
    /\ log = <<>>
    /\ reports = <<>>
    /\ exitCode = <<>>
    /\ calls = <<>>
    /\ writes = <<>>
    /\ DashboardConstructed
    /\ ToolsIdle

AggNext ==
    \/ GenerateDailyReport
    \/ SendDailyReportToSlack
    \/ SendAlerts
    \/ ExitSuccess
    \/ MainCatch

AggSpec == AggInit /\ [][AggNext]_vars

(***************************************************************************)
(* The engine run again and again: after process.exit the script is        *)
(* started anew at a later time, with the environment of that start; the   *)
(* reports directory is what the earlier runs left. The first run is on    *)
(* the last day of week 1, the later ones within MaxRunTime half days.     *)
(***************************************************************************)
RunsStart == 2 * (Week1LastDay - 1)

RunsInit ==
    /\ now = RunsStart
    /\ slackWebhook \in {Null, "IncomingWebhook"}
    /\ pc = "startup"
    /\ idx = 1
    /\ results = <<>>
    /\ thrown = NoError
    /\ sent = <<>>
    /\ log = <<>>
    /\ reports = <<>>
    /\ exitCode = <<>>
    /\ calls = <<>>
    /\ writes = <<>>
    /\ DashboardConstructed
    /\ ToolsIdle

Restart ==
    /\ pc = "exited"
    /\ \E t \in (now + 1)..(RunsStart + MaxRunTime) : now' = t
    /\ slackWebhook' \in {Null, "IncomingWebhook"}
    /\ pc' = "startup"
    /\ idx' = 1
    /\ results' = <<>>
    /\ thrown' = NoError
    /\ sent' = <<>>
    /\ log' = <<>>
    /\ exitCode' = <<>>
    /\ calls' = <<>>
    /\ UNCHANGED <<reports, writes>>
    /\ UNCHANGED <<dashVars, toolVars>>

RunsNext ==
    \/ Next
    \/ Restart

RunsSpec == RunsInit /\ [][RunsNext]_vars

\* The event loop runs every continuation that is ready: timers fire and
\* sends return.
FairSpec == Spec /\ WF_vars(Next)

(***************************************************************************)
(* Observations the properties below are stated with.                      *)
(***************************************************************************)
Settled == {"completed", "failed", "blocked"}

\* The messages of one kind handed to the webhook, in the order of the sends.
SendsOfKind(kind) == SelectSeq(sent, LAMBDA m : m.message.kind = kind)

\* The state of the k-th task selected for the day.
TaskStatus(k) ==
    IF k <= Len(results) THEN results[k].status
    ELSE IF k = idx /\ pc \in {"running", "taskCatch"} THEN "running"
    ELSE "pending"

\* The number of invocations of fn for the task id.
CallCount(fn, id) == Cardinality({j \in 1..Len(calls) : calls[j] = <<fn, id>>})

LogCount(tag, text) == Cardinality({j \in 1..Len(log) : log[j] = Line(tag, text)})

(***************************************************************************)
(* C1.  In one daily cycle the per-task notifications go out in the order  *)
(* in which the tasks were selected (the k-th task notification is about   *)
(* the k-th selected task, after that task has settled, and carries its    *)
(* settled status), and the daily report notification goes out only when   *)
(* every selected task has a result with status completed, failed or       *)
(* blocked; no task notification follows the report.                       *)
(***************************************************************************)
C1_NotificationOrder ==
    LET taskSends == SendsOfKind("task")
    IN  /\ Len(taskSends) <= Len(results)
        /\ \A k \in 1..Len(taskSends) :
             /\ taskSends[k].message.taskId = tasksForToday[k].id
             /\ taskSends[k].message.status = results[k].status
             /\ results[k].status \in Settled
        /\ \A k \in 1..Len(sent) :
             sent[k].message.kind = "report" =>
               /\ Len(results) = Len(tasksForToday)
               /\ \A j \in 1..Len(results) :
                    results[j].taskId = tasksForToday[j].id /\ results[j].status \in Settled
               /\ \A j \in (k + 1)..Len(sent) : sent[j].message.kind # "task"

C1_Witness ==
    /\ pc = "exited"
    /\ currentDay = 1
    /\ Len(SendsOfKind("task")) = 3
    /\ Len(SendsOfKind("report")) = 1
    /\ results[2].status = "blocked"
    /\ results[3].status = "completed"

(***************************************************************************)
(* C2.  Within one cycle the state of every selected task changes only by  *)
(* pending -> blocked, pending -> running, running -> completed and        *)
(* running -> failed, so a settled status never changes again; executeTask *)
(* is invoked at most once per task (no retry); the k-th result is the one *)
(* result of the k-th task and its status is completed, failed or blocked; *)
(* and a cycle that completes has settled every selected task.             *)
(***************************************************************************)
TaskTransitions ==
    {<<"pending", "blocked">>, <<"pending", "running">>,
     <<"running", "completed">>, <<"running", "failed">>}

C2_TaskLifecycle ==
    /\ [][\A k \in 1..Len(tasksForToday) :
            \/ TaskStatus(k)' = TaskStatus(k)
            \/ <<TaskStatus(k), TaskStatus(k)'>> \in TaskTransitions]_vars
    /\ [](/\ Len(results) <= Len(tasksForToday)
          /\ \A k \in 1..Len(tasksForToday) :
               /\ CallCount("executeTask", tasksForToday[k].id) <= 1
               /\ TaskStatus(k) # "pending" => CallCount("executeTask", tasksForToday[k].id) = 1
               /\ k <= Len(results) =>
                    results[k].taskId = tasksForToday[k].id /\ results[k].status \in Settled
          /\ exitCode = <<0>> => Len(results) = Len(tasksForToday))

C2_Witness ==
    /\ exitCode = <<0>>
    /\ Len(results) = 3
    /\ results[1].status = "failed"
    /\ results[2].status = "blocked"
    /\ results[3].status = "completed"

(***************************************************************************)
(* C3.  An exception of the execution simulator never leaves executeTask:  *)
(* the task gets a failed result that carries the message of the           *)
(* exception, the loop goes on with the notification of that task, and     *)
(* the only errors that abort a cycle are a rejected send and a failed     *)
(* write of the report, so a cycle with neither gives every selected task  *)
(* its own result.  (checkDependencies as written cannot throw; the same   *)
(* try block encloses it.)                                                 *)
(***************************************************************************)
C3_TaskFailureIsolated ==
    /\ [][pc = "taskCatch" =>
            /\ pc' = "notify"
            /\ idx' = idx
            /\ Len(results') = Len(results) + 1
            /\ SubSeq(results', 1, Len(results)) = results
            /\ results'[Len(results')].taskId = tasksForToday[idx].id
            /\ results'[Len(results')].status = "failed"
            /\ results'[Len(results')].message = thrown.message]_vars
    /\ [](/\ pc = "taskCatch" => thrown # NoError /\ exitCode = <<>>
          /\ pc \in {"catch", "exited"} /\ thrown # NoError => thrown \in {SendError, PersistError}
          /\ pc = "exited" /\ thrown # SendError => Len(results) = Len(tasksForToday))

C3_Witness ==
    /\ exitCode = <<0>>
    /\ Len(results) = 3
    /\ results[1].status = "failed"
    /\ results[2].status = "completed"
    /\ results[3].status = "completed"

(***************************************************************************)
(* C4.  A failed delivery of a notification during the cycle is only       *)
(* logged: the cycle is not aborted (main's catch block is not entered),   *)
(* the remaining tasks and the report are processed, and the process       *)
(* exits with code 0.                                                      *)
(***************************************************************************)
CycleSendFailed ==
    \E k \in 1..Len(sent) : sent[k].message.kind # "error" /\ ~sent[k].delivered

C4_DeliveryFailureOnlyLogged ==
    CycleSendFailed =>
      /\ pc # "catch"
      /\ \E k \in 1..Len(log) : log[k].line = "sendFailed"
      /\ pc = "exited" =>
           /\ exitCode = <<0>>
           /\ Len(results) = Len(tasksForToday)
           /\ Today \in DOMAIN reports

(***************************************************************************)
(* C5 (as stated).  With slackWebhook null every notification operation    *)
(* that has run (startup, per-task, per-day) has left a local log line     *)
(* and none has raised an error.                                           *)
(***************************************************************************)
C5_EveryNotificationLogged ==
    slackWebhook = Null =>
      /\ sent = <<>>
      /\ thrown # SendError
      /\ pc # "startup" => LogCount("notConfigured", StartupMessage.text) = 1
      /\ pc = "pause" => LogCount("notConfigured", <<"Task Update">>) = idx
      /\ pc = "cycleComplete" => LogCount("notConfigured", <<"HAL Phase 3 Daily Report">>) = 1

(***************************************************************************)
(* C5 (amended).  With slackWebhook null no notification operation raises  *)
(* an error or hands a message to the sink, and a cycle is aborted only by *)
(* a failed write of the report; the startup notification leaves exactly   *)
(* one local log line, while the per-task and per-day notifications        *)
(* return without a log line and main's catch block does not call the      *)
(* error notification.                                                     *)
(***************************************************************************)
C5_NoWebhookNeverRaises ==
    slackWebhook = Null =>
      /\ sent = <<>>
      /\ \A k \in 1..Len(log) : log[k].line \notin {"sent", "sendFailed"}
      /\ pc \in {"catch", "exited"} /\ thrown # NoError => thrown = PersistError
      /\ pc # "startup" => LogCount("notConfigured", StartupMessage.text) = 1
      /\ \A k \in 1..Len(log) : log[k].line = "notConfigured" => log[k].text = StartupMessage.text

C5_Witness ==
    /\ slackWebhook = Null
    /\ exitCode = <<0>>
    /\ Len(results) = 3
    /\ results[1].status = "completed"
    /\ results[2].status = "blocked"
    /\ LogCount("notConfigured", StartupMessage.text) = 1

(***************************************************************************)
(* C6.  The process exits with code 0 exactly when the whole daily cycle   *)
(* has completed without an uncaught error (every task settled, the        *)
(* report written, executeDaily returned) and with code 1 exactly when an  *)
(* error has left executeDaily; process.exit is called only at the end,    *)
(* and every run exits.                                                    *)
(***************************************************************************)
C6_ExitCode ==
    /\ [](/\ exitCode \in {<<>>, <<0>>, <<1>>}
          /\ exitCode # <<>> <=> pc = "exited"
          /\ exitCode = <<0>> =>
               /\ thrown = NoError
               /\ Len(results) = Len(tasksForToday)
               /\ Today \in DOMAIN reports
               /\ LogCount("cycleComplete", <<>>) = 1
          /\ exitCode = <<1>> =>
               /\ thrown \in {SendError, PersistError}
               /\ LogCount("cycleComplete", <<>>) = 0
               /\ LogCount("automationFailed", thrown.message) = 1)
    /\ <>(pc = "exited")

C6_Witness ==
    /\ exitCode = <<1>>
    /\ thrown = SendError
    /\ Len(results) = 2
    /\ Len(tasksForToday) = 4

C8_ExactlyOneFinalNotification ==
    exitCode = <<1>> => Len(SendsOfKind("error")) = 1

(***************************************************************************)
(* C8 (amended).  On an uncaught orchestrator error the top-level handler  *)
(* attempts exactly one final failure notification when the webhook is     *)
(* configured and none when it is not, and then exits with code 1; the     *)
(* notification is the last message sent, is attempted only in the catch   *)
(* block, and its failure does not prevent the exit with code 1.           *)
(***************************************************************************)
C8_FinalNotification ==
    /\ pc # "exited" => SendsOfKind("error") = <<>>
    /\ pc = "exited" /\ thrown # NoError =>
         /\ exitCode = <<1>>
         /\ Len(SendsOfKind("error")) = IF slackWebhook # Null THEN 1 ELSE 0
         /\ \A k \in 1..Len(sent) :
              sent[k].message.kind = "error" =>
                k = Len(sent) /\ sent[k].message.error = thrown.message
    /\ pc = "exited" /\ thrown = NoError => SendsOfKind("error") = <<>>

C8_Witness ==
    /\ exitCode = <<1>>
    /\ slackWebhook # Null
    /\ sent[Len(sent)].message.kind = "error"
    /\ ~sent[Len(sent)].delivered
    /\ LogCount("sendFailed", <<"HAL Phase 3 Automation Error">>) = 1

(***************************************************************************)
(* C9.  checkDependencies answers ready for every empty and for an absent  *)
(* dependency list, whatever Math.random() would return, so no task        *)
(* without dependencies ever gets the status blocked.                      *)
(***************************************************************************)
C9_EmptyDepsReady ==
    /\ \A r \in Rand : checkDependencies(<<>>, r) /\ checkDependencies(Null, r)
    /\ \A k \in 1..Len(results) :
         Len(tasksForToday[k].deps) = 0 => results[k].status # "blocked"
    /\ pc = "notify" /\ Len(tasksForToday[idx].deps) = 0 =>
         results[Len(results)].status # "blocked"

C9_Witness ==
    /\ Len(results) = 3
    /\ Len(tasksForToday[1].deps) = 0
    /\ results[1].status = "completed"
    /\ results[2].status = "blocked"
    /\ results[3].status = "blocked"

(***************************************************************************)
(* C10.  A task that fails the dependency gate gets a blocked result and   *)
(* nothing else happens in that step: simulateTaskExecution is never       *)
(* invoked for it, and the sink, the log, the report store and the error   *)
(* state are untouched.  The gate of every later task does not read the    *)
(* results of the cycle: whatever the earlier tasks' statuses are, a task  *)
(* with dependencies can still be found ready and can still be found not   *)
(* ready, and the loop reaches every task unless a send is rejected.       *)
(***************************************************************************)
C10_BlockedIsLocal ==
    /\ [][pc = "executeTask" /\ pc' = "notify" =>
            /\ results' = Append(results, BlockedResult(tasksForToday[idx]))
            /\ calls' = Append(calls, <<"executeTask", tasksForToday[idx].id>>)
            /\ UNCHANGED <<now, slackWebhook, idx, thrown, sent, log, reports, exitCode>>]_vars
    /\ [](/\ \A k \in 1..Len(results) :
               results[k].status = "blocked" =>
                 /\ CallCount("simulateTaskExecution", results[k].taskId) = 0
                 /\ LogCount("taskCompleted", <<results[k].taskId>>) = 0
                 /\ LogCount("taskFailed", <<results[k].taskId>>) = 0
          /\ pc = "executeTask" =>
               /\ ENABLED (ExecuteTask /\ pc' = "running")
               /\ Len(tasksForToday[idx].deps) > 0 => ENABLED (ExecuteTask /\ pc' = "notify")
          /\ pc = "pause" /\ idx < Len(tasksForToday) => ENABLED (Pause /\ pc' = "executeTask")
          /\ pc = "exited" /\ thrown # SendError => Len(results) = Len(tasksForToday))

\* Day 3: task 2.1 is blocked and task 2.2, which depends on 2.1, completes.
C10_Witness ==
    /\ currentDay = 3
    /\ exitCode = <<0>>
    /\ results[1].status = "blocked"
    /\ Includes(tasksForToday[2].deps, results[1].taskId)
    /\ results[2].status = "completed"
    /\ results[3].status = "failed"

(***************************************************************************)
(* C11  Day 1 without failures.                                            *)
(***************************************************************************)
\* The report this run stored for today, read from the reports directory.
StoredToday == JsonParse(reports[Today])

NoneFailed == \A k \in 1..Len(results) : results[k].status # "failed"

FullSummary(n) ==
    [total |-> n, completed |-> n, failed |-> 0, blocked |-> 0,
     successRate |-> [tenths |-> 1000]]

\* C11 as stated: on day 1, when no task execution fails, the summary of
\* the stored report is {total 3, completed 3, failed 0, blocked 0,
\* successRate "100.0"}, whatever the dependency oracle answers.
C11_DayOneAllCompleted ==
    (currentDay = 1 /\ pc = "reportNotify" /\ NoneFailed)
        => StoredToday.summary = FullSummary(3)

\* C11 amended: only task 1.1 of day 1 has empty dependencies; 1.2 and 1.3
\* depend on 1.1. On day 1, when no task execution fails, task 1.1 is
\* completed, the summary has total 3 and failed 0, every task that is not
\* completed is one of 1.2, 1.3 and is blocked, and the summary is
\* {3, 3, 0, 0, "100.0"} exactly when the oracle answered ready for both.
C11_DayOneWithoutFailures ==
    (currentDay = 1 /\ pc = "reportNotify" /\ NoneFailed)
        => /\ Len(results) = 3
           /\ results[1].taskId = "1.1" /\ results[1].status = "completed"
           /\ \A k \in 2..3 : /\ tasksForToday[k].deps = <<"1.1">>
                              /\ results[k].status \in {"completed", "blocked"}
           /\ StoredToday.summary.total = 3
           /\ StoredToday.summary.failed = 0
           /\ StoredToday.summary.completed + StoredToday.summary.blocked = 3
           /\ (\A k \in 2..3 : results[k].status = "completed")
                 <=> StoredToday.summary = FullSummary(3)

C11_Witness ==
    /\ currentDay = 1 /\ pc = "reportNotify" /\ NoneFailed
    /\ StoredToday.summary = FullSummary(3)
    /\ CallCount("executeTask", "1.2") = 1

(***************************************************************************)
(* C12  The Day Task Selector.                                             *)
(***************************************************************************)
\* The plan schedules the task with this id on day d.
ScheduledOn(id, d) ==
    \E w \in DOMAIN TASKS : \E j \in 1..Len(TASKS[w].tasks) :
        TASKS[w].tasks[j].id = id /\ Includes(TASKS[w].tasks[j].days, d)

Ids(tasks) == [k \in 1..Len(tasks) |-> tasks[k].id]

\* C12: on every day of 1..18 (the clock of a run ranges over all of them)
\* getTasksForDay returns only tasks the plan schedules on that day, on
\* day 1 exactly the tasks 1.1, 1.2, 1.3; so every task a cycle executes
\* is scheduled on the cycle's day.
C12_OnlyTasksOfTheDay ==
    /\ \A k \in 1..Len(tasksForToday) : ScheduledOn(tasksForToday[k].id, currentDay)
    /\ currentDay = 1 => Ids(tasksForToday) = <<"1.1", "1.2", "1.3">>
    /\ \A k \in 1..Len(calls) : ScheduledOn(calls[k][2], currentDay)
    /\ \A k \in 1..Len(results) : ScheduledOn(results[k].taskId, currentDay)

C12_Witness ==
    /\ currentDay = 1
    /\ pc = "report"
    /\ Ids(tasksForToday) = <<"1.1", "1.2", "1.3">>
    /\ [k \in 1..Len(results) |-> results[k].taskId] = <<"1.1", "1.2", "1.3">>

(***************************************************************************)
(* C13  The Week Mapper.                                                   *)
(***************************************************************************)
\* C13: for every day d in 1..18 getCurrentWeek(d) is 1 for d <= 7, 2 for
\* 8 <= d <= 12 and 3 for 13 <= d <= 18, which are the day ranges of the
\* weeks of the plan; a stored report carries the week of its day and the
\* week of the next day.
C13_WeekBoundaries ==
    /\ \A d \in 1..Horizon :
           getCurrentWeek(d) = (IF d \in 1..7 THEN 1 ELSE IF d \in 8..12 THEN 2 ELSE 3)
    /\ getCurrentWeek(7) = 1 /\ getCurrentWeek(8) = 2
    /\ getCurrentWeek(12) = 2 /\ getCurrentWeek(13) = 3
    /\ \A d \in 1..Horizon : \A w \in DOMAIN TASKS :
           (getCurrentWeek(d) = w) <=> Includes(TASKS[w].days, d)
    /\ pc = "reportNotify" =>
           /\ Includes(TASKS[StoredToday.week].days, StoredToday.day)
           /\ Includes(TASKS[StoredToday.nextDay.week].days, StoredToday.nextDay.day)

C13_Witness ==
    /\ pc = "reportNotify"
    /\ StoredToday.day = 7 /\ StoredToday.week = 1
    /\ StoredToday.nextDay.day = 8 /\ StoredToday.nextDay.week = 2

(***************************************************************************)
(* C14  The Calendar Mapper.                                               *)
(***************************************************************************)
\* C14: at every time the day index is clamp(daysSinceStart + 1, 1, 18): it
\* is in 1..18, it is 1 before the phase start, 18 from start + 18 days on,
\* and the number of whole days since the start plus one in between; the
\* startup notification and the stored report carry that day.
C14_PhaseDayClamped ==
    /\ currentDay \in 1..18
    /\ now < 0 => currentDay = 1
    /\ now >= 2 * 18 => currentDay = 18
    /\ (now >= 0 /\ now < 2 * 18) => currentDay = IF now \div 2 + 1 <= 18 THEN now \div 2 + 1 ELSE 18
    /\ \A k \in 1..Len(sent) : sent[k].message.kind = "startup" => sent[k].message.day = currentDay
    /\ pc = "reportNotify" => StoredToday.day = currentDay

C14_Witness ==
    /\ now = 0 - 1
    /\ pc = "reportNotify"
    /\ StoredToday.day = 1

(***************************************************************************)
(* C15  The summary identity.                                              *)
(***************************************************************************)
\* The summary of the report stored for today.
Summary == StoredToday.summary

\* C15: for every result set handed to the aggregator the stored summary
\* has completed + failed + blocked = total, and total is the number of
\* results.
C15_SummaryIdentity ==
    Today \in DOMAIN reports =>
        /\ Summary.total = Len(results)
        /\ Summary.completed + Summary.failed + Summary.blocked = Summary.total

C15_Witness ==
    /\ Today \in DOMAIN reports
    /\ Summary.completed > 0 /\ Summary.failed > 0 /\ Summary.blocked > 0
    /\ Summary.total = MaxResults

(***************************************************************************)
(* C16  The success rate.                                                  *)
(***************************************************************************)
\* C16: successRate is the string "0" for an empty result set and otherwise
\* the decimal with one fractional digit nearest to completed / total * 100
\* (the upper one at a tie); 3 of 4 gives "75.0".
C16_SuccessRate ==
    Today \in DOMAIN reports =>
        /\ Summary.total = 0 => Summary.successRate = [literal |-> "0"]
        /\ Summary.total > 0 =>
             /\ DOMAIN Summary.successRate = {"tenths"}
             /\ LET off == 2 * (1000 * Summary.completed
                                  - Summary.successRate.tenths * Summary.total)
                IN  (0 - Summary.total) < off /\ off <= Summary.total
        /\ (Summary.total = 4 /\ Summary.completed = 3) => Summary.successRate = [tenths |-> 750]

C16_Witness ==
    /\ Today \in DOMAIN reports
    /\ Summary.total = 4 /\ Summary.completed = 3
    /\ Summary.successRate = [tenths |-> 750]

(***************************************************************************)
(* C17  The efficiency score.                                              *)
(***************************************************************************)
\* C17: for every non-empty result set the efficiency of the stored report
\* is a number within 0..100.
C17_EfficiencyRange ==
    (Today \in DOMAIN reports /\ Summary.total >= 1) =>
        /\ DOMAIN StoredToday.performance.efficiency = {"value"}
        /\ StoredToday.performance.efficiency.value \in 0..100

C17_Witness ==
    /\ Today \in DOMAIN reports
    /\ Summary.completed >= 1 /\ Summary.completed < Summary.total
    /\ StoredToday.performance.averageTime > ExpectedTime
    /\ StoredToday.performance.efficiency.value \in 1..99

(***************************************************************************)
(* C18  Round trip of a persisted report.                                  *)
(***************************************************************************)
\* C18 as stated: the file generateDailyReport has just written parses to
\* a value equal to the report object it wrote, for every result set.
C18_RoundTrip ==
    pc = "reportNotify" =>
        JsonParse(reports[Today]) = DailyReport(Today, currentDay, currentWeek, results)

(***************************************************************************)
(* C19  One report per date, the latest.                                   *)
(***************************************************************************)
\* The text of the last file written for the date d.
LastWritten(d) ==
    LET ks == {k \in 1..Len(writes) : writes[k].date = d}
    IN  writes[CHOOSE k \in ks : \A j \in ks : j <= k].text

\* C19: after any sequence of runs the reports directory has a file for
\* exactly the dates a run has written a report for, one per date, and the
\* file of a date is the text of the latest write for that date and holds
\* a report of that date.
C19_LatestReportPerDate ==
    /\ DOMAIN reports = {writes[k].date : k \in 1..Len(writes)}
    /\ \A d \in DOMAIN reports :
           /\ reports[d] = LastWritten(d)
           /\ JsonParse(reports[d]).date = d

C19_Witness ==
    /\ Len(writes) >= 2
    /\ writes[1].date = writes[2].date
    /\ writes[1].text # writes[2].text
    /\ reports[writes[2].date] = writes[2].text

(***************************************************************************)
(* C20  The alert list.                                                    *)
(***************************************************************************)
\* C20: the alert list never holds more than 50 alerts; after n insertions
\* it holds the min(n, 50) most recently inserted alerts, the most recent
\* first, so in reverse-chronological order; after 60 insertions it holds
\* 50.
C20_AlertListBounded ==
    LET alerts == metrics.alerts
        n == Len(inserted)
    IN  /\ Len(alerts) <= 50
        /\ Len(alerts) = IF n <= 50 THEN n ELSE 50
        /\ \A i \in 1..Len(alerts) : alerts[i] = inserted[n + 1 - i]
        /\ \A i \in 1..(Len(alerts) - 1) : alerts[i].timestamp >= alerts[i + 1].timestamp
        /\ n = 60 => Len(alerts) = 50

C20_Witness ==
    /\ ticks > 0
    /\ Len(inserted) = 60
    /\ Len(metrics.alerts) = 50
    /\ metrics.alerts[1] = inserted[60]
    /\ metrics.alerts[50] = inserted[11]
    /\ metrics.alerts[1].level = "info"

(***************************************************************************)
(* C21  The completed-task counter.                                        *)
(***************************************************************************)
\* C21 as stated: in every state of the dashboard the completed-task
\* counter is at most the total.
C21_CounterCapped == metrics.tasksCompleted <= metrics.tasksTotal

(***************************************************************************)
(* C22  The initial snapshot.                                              *)
(***************************************************************************)
\* What every observer has been sent so far: nothing before its connection
\* event, and from then on first the message of type initial, followed by
\* update messages only.
InitialFirst ==
    \A c \in ClientIds :
        /\ readyState[c] = "CONNECTING" => outbox[c] = <<>>
        /\ readyState[c] # "CONNECTING" =>
               /\ Len(outbox[c]) >= 1
               /\ outbox[c][1].type = "initial"
        /\ c \in clients => readyState[c] \in {"OPEN", "CLOSING"}
        /\ \A k \in 2..Len(outbox[c]) : outbox[c][k].type = "update"

\* The step in which an observer joins the set sends it, in that same step,
\* exactly the initial message carrying the status snapshot of that moment.
SnapshotOnConnect ==
    \A c \in ClientIds :
        (c \in clients' /\ c \notin clients) =>
            outbox'[c] = <<[type |-> "initial", data |-> getSystemStatus(metrics, dclock)]>>

\* C22: an observer that connects is sent the full current snapshot as a
\* message of type initial in the step of its connection; the first message
\* of every observer is the initial one and no update precedes it.
C22_InitialSnapshotFirst == []InitialFirst /\ [][SnapshotOnConnect]_vars

\* An observer that connected to a dashboard with completed tasks and alerts
\* has its initial message followed by an update.
C22_Witness ==
    \E c \in ClientIds :
        /\ Len(outbox[c]) >= 2
        /\ outbox[c][1].type = "initial"
        /\ outbox[c][1].data.tasks.completed > 0
        /\ outbox[c][1].data.system.alerts > 0
        /\ outbox[c][2].type = "update"

(***************************************************************************)
(* C23  The broadcast tick.                                                *)
(***************************************************************************)
\* The tick changes neither the snapshot nor the alert list.
TickLeavesSnapshot == metrics' = metrics /\ inserted' = inserted

\* C23 as stated: on a broadcast tick every observer of the set is sent
\* exactly one update message, nothing is sent when the set is empty, and
\* the snapshot and the alert list stay as they are.
C23_EveryObserverUpdated ==
    [][BroadcastTick =>
          /\ TickLeavesSnapshot
          /\ \A c \in ClientIds :
                IF c \in clients
                THEN outbox'[c] = Append(outbox[c], UpdateMessage(metrics, dclock'))
                ELSE outbox'[c] = outbox[c]]_vars

\* C23: on a broadcast tick every observer of the set whose socket is OPEN
\* is either sent exactly one update message (status, metrics and team of
\* that moment) or, its send failing, removed from the set unsent; an
\* observer whose socket is not OPEN is sent nothing and stays in the set;
\* nothing is sent when the set is empty; the snapshot and the alert list
\* stay as they are.
C23_OpenObserversUpdated ==
    [][BroadcastTick =>
          /\ TickLeavesSnapshot
          /\ clients = {} => (outbox' = outbox /\ clients' = clients)
          /\ \A c \in ClientIds :
                IF c \in clients /\ readyState[c] = "OPEN"
                THEN \/ /\ outbox'[c] = Append(outbox[c], UpdateMessage(metrics, dclock'))
                        /\ c \in clients'
                     \/ /\ outbox'[c] = outbox[c]
                        /\ c \notin clients'
                ELSE /\ outbox'[c] = outbox[c]
                     /\ c \in clients' <=> c \in clients]_vars

\* After one broadcast tick and no other, two observers of the set have
\* been treated differently: the one with the OPEN socket holds the update,
\* the one whose socket is closing holds its initial message only.
C23_Witness ==
    /\ ticks = 1
    /\ metrics.tasksCompleted = Len(inserted)
    /\ \E c, d \in clients :
        /\ readyState[c] = "OPEN"
        /\ Len(outbox[c]) = 2
        /\ outbox[c][2].type = "update"
        /\ outbox[c][2].data.metrics.realtime.activeConnections = 2
        /\ readyState[d] = "CLOSING"
        /\ Len(outbox[d]) = 1

(***************************************************************************)
(* C24  The query surface.                                                 *)
(***************************************************************************)
\* C24: a step that answers a request of the query surface (status,
\* metrics, reports, team or health) leaves the counters, the health state
\* and the alert list of the snapshot, the observer set and everything sent
\* to the observers as they were; so does it leave the reports directory.
C24_QueriesReadOnly ==
    [][response' # response =>
          /\ metrics' = metrics
          /\ inserted' = inserted
          /\ clients' = clients
          /\ readyState' = readyState
          /\ outbox' = outbox
          /\ reports' = reports]_vars

\* The status route has answered from a snapshot that is not healthy and
\* has completed tasks and alerts, with an observer in the set; the snapshot
\* still is what the answer reports.
C24_Witness ==
    /\ response.endpoint = "/api/status"
    /\ response.body = getSystemStatus(metrics, dclock)
    /\ response.body.system.health # "healthy"
    /\ response.body.system.alerts > 0
    /\ response.body.tasks.completed > 0
    /\ clients # {}

(***************************************************************************)
(* C25  The plan is well formed.                                           *)
(***************************************************************************)
\* Every task of the plan, week after week.
AllTasks == TASKS[1].tasks \o TASKS[2].tasks \o TASKS[3].tasks

AllIds == {AllTasks[k].id : k \in 1..Len(AllTasks)}

UniqueIds ==
    \A i, j \in 1..Len(AllTasks) : AllTasks[i].id = AllTasks[j].id => i = j

DependenciesExist ==
    \A k \in 1..Len(AllTasks) : \A d \in 1..Len(AllTasks[k].deps) :
        AllTasks[k].deps[d] \in AllIds

\* The ids that can be put in an order in which every task comes after all
\* its dependencies, starting from the ids already ordered: the relation is
\* acyclic exactly if every id can.
RECURSIVE Orderable(_)
Orderable(ordered) ==
    LET next == {AllTasks[k].id : k \in {i \in 1..Len(AllTasks) :
                     \A d \in 1..Len(AllTasks[i].deps) : AllTasks[i].deps[d] \in ordered}}
    IN  IF next = ordered THEN ordered ELSE Orderable(next)

Acyclic == Orderable({}) = AllIds

\* C25: the task ids of the plan are unique, every dependency id names a
\* task of the plan, and the dependency relation is acyclic; so each
\* dependency the gate looks at in a cycle names exactly one task.
C25_PlanWellFormed ==
    /\ UniqueIds
    /\ DependenciesExist
    /\ Acyclic
    /\ pc \in {"executeTask", "running"} =>
           \A d \in 1..Len(tasksForToday[idx].deps) :
               Cardinality({k \in 1..Len(AllTasks) :
                                AllTasks[k].id = tasksForToday[idx].deps[d]}) = 1

\* The gate has let through a task with three dependencies.
C25_Witness ==
    /\ pc = "running"
    /\ Len(tasksForToday[idx].deps) = 3

(***************************************************************************)
(* C26  Task id and owner of a result.                                     *)
(***************************************************************************)
\* C26 as stated: every result of the cycle, whatever its status, carries
\* the id and the owner of the task it was produced for.
C26_ResultsCarryIdAndOwner ==
    \A k \in 1..Len(results) :
        /\ results[k].taskId = tasksForToday[k].id
        /\ "owner" \in DOMAIN results[k]
        /\ results[k].owner = tasksForToday[k].owner

(***************************************************************************)
(* C27  The batched alert.                                                 *)
(***************************************************************************)
\* The failed and blocked results of the cycle, in result order.
NeedingAttention ==
    SelectSeq(results, LAMBDA r : r.status = "failed" \/ r.status = "blocked")

\* The positions in sent of the messages of one kind.
PositionsOfKind(kind) == {k \in 1..Len(sent) : sent[k].message.kind = kind}

\* C27 as stated: with the sink configured, once the cycle has sent its
\* per-day notification and ended, exactly one batched alert message has
\* followed it if failed + blocked > 0 and none otherwise; the alert lists
\* exactly the failed and blocked results, in result order.
C27_AlertIffFailedOrBlocked ==
    (slackWebhook # Null /\ pc = "exited" /\ PositionsOfKind("report") # {}) =>
        /\ Cardinality(PositionsOfKind("alert")) = IF Len(NeedingAttention) > 0 THEN 1 ELSE 0
        /\ \A a \in PositionsOfKind("alert") :
              /\ \A r \in PositionsOfKind("report") : r < a
              /\ sent[a].message.count = Len(NeedingAttention)
              /\ [k \in 1..Len(sent[a].message.attachments) |->
                     <<sent[a].message.attachments[k].task,
                       sent[a].message.attachments[k].status>>]
                 = [k \in 1..Len(NeedingAttention) |->
                     <<NeedingAttention[k].taskId, NeedingAttention[k].status>>]

(***************************************************************************)
(* C28  One result per selected task, in selection order.                  *)
(***************************************************************************)
\* executeTasks has returned its results to executeDaily.
ExecuteTasksReturned == pc \in {"report", "reportNotify", "alertNotify", "cycleComplete"}

\* C28: when executeTasks has returned, the result sequence is as long as
\* the sequence of selected tasks and its i-th result carries the id of the
\* i-th selected task; while it runs, the results are those of the first
\* tasks, in selection order.
C28_OneResultPerTask ==
    /\ Len(results) <= Len(tasksForToday)
    /\ Ids(SubSeq(tasksForToday, 1, Len(results)))
           = [k \in 1..Len(results) |-> results[k].taskId]
    /\ ExecuteTasksReturned => Len(results) = Len(tasksForToday)

\* executeTasks has returned the results of four tasks, among them a
\* completed, a failed and a blocked one.
C28_Witness ==
    /\ pc = "report"
    /\ Len(results) = 4
    /\ \A s \in Settled : \E k \in 1..Len(results) : results[k].status = s

(***************************************************************************)
(* C29  Settle, notify, pause, next task.                                  *)
(***************************************************************************)
\* The task messages handed to the sink, in the order of the sends.
TaskSends == SendsOfKind("task")

\* The order of the steps of the loop of executeTasks: the gate of a task
\* is entered from the startup (the first task) or from the pause after the
\* task before it; the pause is entered from the notification only; the
\* notification is entered only by the step that pushes the result of the
\* task at idx.
LoopOrder ==
    /\ (pc' = "executeTask" /\ pc # "executeTask") =>
           \/ pc = "startup" /\ idx' = 1
           \/ pc = "pause" /\ idx' = idx + 1
    /\ (pc' = "pause" /\ pc # "pause") =>
           /\ pc = "notify"
           /\ slackWebhook # Null =>
                  sent' = Append(sent, [message |-> TaskMessage(tasksForToday[idx], results[idx]),
                                        delivered |-> TRUE])
    /\ (pc' = "notify" /\ pc # "notify") =>
           /\ pc \in {"executeTask", "running", "taskCatch"}
           /\ results' = Append(results, results'[idx])
           /\ results'[idx].taskId = tasksForToday[idx].id
           /\ results'[idx].status \in Settled

\* When the gate of task idx is entered, every task before it has settled
\* and, with the sink configured, the notification of each of them has been
\* delivered, in selection order, the one of task idx - 1 last.
BeforeNextTask ==
    pc = "executeTask" =>
        /\ Len(results) = idx - 1
        /\ slackWebhook # Null =>
               /\ Len(TaskSends) = idx - 1
               /\ \A k \in 1..Len(TaskSends) :
                      /\ TaskSends[k].delivered
                      /\ TaskSends[k].message.taskId = tasksForToday[k].id
                      /\ TaskSends[k].message.status = results[k].status
               /\ idx > 1 => sent[Len(sent)].message.kind = "task"

\* C29: the gating of task i+1 begins only after task i has settled, then
\* its per-task notification has been emitted, then the pause has ended,
\* in that order (with the sink not configured the notification step emits
\* nothing).
C29_SettleNotifyPauseNext == []BeforeNextTask /\ [][LoopOrder]_vars

\* The gate of the third task is entered with the sink configured, after a
\* blocked second task.
C29_Witness ==
    /\ pc = "executeTask"
    /\ idx = 3
    /\ slackWebhook # Null
    /\ results[2].status = "blocked"
    /\ Len(TaskSends) = 2

(***************************************************************************)
(* C30  No two tasks in execution.                                         *)
(***************************************************************************)
\* The selected tasks for which executeTask has been called.
Started ==
    {k \in 1..Len(tasksForToday) :
        \E c \in 1..Len(calls) : calls[c] = <<"executeTask", tasksForToday[k].id>>}

HasResult(k) == \E j \in 1..Len(results) : results[j].taskId = tasksForToday[k].id

\* The tasks in execution: executeTask has been called for them and has not
\* returned a result yet.
InExecution == {k \in Started : ~HasResult(k)}

\* C30: at every point of a cycle at most one task is in execution, that
\* task is the one the loop is at, and every task before it in selection
\* order has its settled result; executeTask is called once per task.
C30_NeverConcurrent ==
    LET started == Started
        inExecution == {k \in started : ~HasResult(k)}
    IN  /\ Cardinality(inExecution) <= 1
        /\ \A k \in inExecution :
              /\ k = idx
              /\ pc \in {"running", "taskCatch"}
              /\ \A j \in 1..(k - 1) : HasResult(j) /\ results[j].status \in Settled
        /\ pc = "running" => inExecution = {idx}
        /\ \A k \in started : CallCount("executeTask", tasksForToday[k].id) = 1

\* The fourth task of the day is in execution after three settled ones.
C30_Witness ==
    /\ pc = "running"
    /\ InExecution = {4}
    /\ Len(results) = 3

(***************************************************************************)
(* C31  The cycle reaches the report stage.                                *)
(***************************************************************************)
\* executeDaily is at generateDailyReport with a settled result for every
\* selected task.
ReportStageReached ==
    /\ pc = "report"
    /\ Len(results) = Len(tasksForToday)
    /\ \A k \in 1..Len(results) : results[k].status \in Settled

\* C31 as stated: with the event loop running every ready continuation, a
\* daily cycle of any day ends with every selected task settled and the
\* report stage reached, also when tasks fail or are blocked.
C31_CycleReachesReport == <>ReportStageReached

(***************************************************************************)
(* C32  The preview of the next day.                                       *)
(***************************************************************************)
\* day + 1 clamped to 1..18.
ClampedNextDay ==
    IF currentDay + 1 > Horizon THEN Horizon
    ELSE IF currentDay + 1 < 1 THEN 1
    ELSE currentDay + 1

\* C32: the nextDay preview of the report stored by the cycle of any day of
\* 1..18 has the day clamp(day + 1, 1, 18), the week derived from that day
\* and the number of tasks the selector returns for that day; on day 18 the
\* preview is of day 18 itself.
C32_NextDayPreview ==
    Today \in DOMAIN reports =>
        /\ StoredToday.day = currentDay
        /\ StoredToday.nextDay.day = ClampedNextDay
        /\ StoredToday.nextDay.week = getCurrentWeek(ClampedNextDay)
        /\ StoredToday.nextDay.scheduledTasks = Len(getTasksForDay(ClampedNextDay))
        /\ currentDay = Horizon =>
               StoredToday.nextDay = [day |-> Horizon, week |-> 3,
                                      scheduledTasks |-> Len(tasksForToday)]

\* The report of day 18 is stored, its preview is of day 18.
C32_Witness ==
    /\ Today \in DOMAIN reports
    /\ StoredToday.day = Horizon
    /\ StoredToday.nextDay.day = Horizon
    /\ StoredToday.nextDay.scheduledTasks > 0

(***************************************************************************)
(* C33  The health tick.                                                   *)
(***************************************************************************)
HealthStates == {"healthy", "warning", "error"}

\* The step inserts exactly one alert, of the level of the new health
\* state, which becomes the head of the list.
OneAlertOfNewLevel ==
    /\ Len(inserted') = Len(inserted) + 1
    /\ inserted' = Append(inserted, inserted'[Len(inserted')])
    /\ inserted'[Len(inserted')].level = metrics'.systemHealth
    /\ inserted'[Len(inserted')].timestamp = dclock'
    /\ metrics'.alerts[1] = inserted'[Len(inserted')]

NoAlert == inserted' = inserted /\ metrics'.alerts = metrics.alerts

\* C33 as stated: a health tick leaves the health state in {healthy,
\* warning, error} and appends one alert of the matching level exactly when
\* it changes the health state to warning or to error; a tick that does not
\* change the state to warning or error appends none.
C33_AlertOnTransitionOnly ==
    [][HealthTick =>
          /\ metrics'.systemHealth \in HealthStates
          /\ IF /\ metrics'.systemHealth \in {"warning", "error"}
                /\ metrics'.systemHealth # metrics.systemHealth
             THEN OneAlertOfNewLevel
             ELSE NoAlert]_vars

\* C33: a health tick leaves the health state in {healthy, warning, error}
\* and appends one alert of the matching level exactly when the state it
\* sets is warning or error, whether or not the state was the same before
\* the tick; a tick that sets healthy appends none. Nothing else of the
\* snapshot changes.
C33_AlertOnWarningOrError ==
    [][HealthTick =>
          /\ metrics'.systemHealth \in HealthStates
          /\ metrics'.tasksCompleted = metrics.tasksCompleted
          /\ metrics'.tasksTotal = metrics.tasksTotal
          /\ IF metrics'.systemHealth \in {"warning", "error"}
             THEN OneAlertOfNewLevel
             ELSE NoAlert]_vars

\* Two health ticks in a row have set warning: the second one, which did
\* not change the health state, has inserted its alert too.
C33_Witness ==
    /\ ticks = 2
    /\ metrics.systemHealth = "warning"
    /\ Len(inserted) >= 2
    /\ inserted[Len(inserted)].level = "warning"
    /\ inserted[Len(inserted) - 1].level = "warning"
    /\ metrics.alerts[1] = inserted[Len(inserted)]

(***************************************************************************)
(* C34  Pruning on a failed send.                                          *)
(***************************************************************************)
\* The observers a step removes from the set while their socket stays
\* OPEN: the close and error events leave the socket CLOSED or CLOSING, so
\* these are the observers whose send has failed in a broadcast.
Pruned == {c \in clients : c \notin clients' /\ readyState'[c] = "OPEN"}

\* The observers deleted from the set by a failed send earlier on.
PrunedBefore == {c \in ClientIds : c \notin clients /\ readyState[c] = "OPEN"}

\* C34: a step in which the send to an observer fails removes that observer
\* from the set and neither delivers nor keeps the message for it, while
\* every other observer of the set with an OPEN socket is still sent the one
\* update of that broadcast, or is pruned in its turn; an observer pruned
\* earlier is sent nothing afterwards.
C34_PrunedOnSendFailure ==
    [][/\ \A c \in Pruned :
             /\ outbox'[c] = outbox[c]
             /\ \A d \in clients \ Pruned :
                    IF readyState[d] = "OPEN"
                    THEN /\ d \in clients'
                         /\ Len(outbox'[d]) = Len(outbox[d]) + 1
                         /\ outbox'[d] = Append(outbox[d], outbox'[d][Len(outbox'[d])])
                         /\ outbox'[d][Len(outbox'[d])].type = "update"
                    ELSE outbox'[d] = outbox[d] /\ d \in clients'
       /\ \A c \in PrunedBefore : outbox'[c] = outbox[c] /\ c \notin clients']_vars

\* One broadcast to two observers: the send to one failed and it has been
\* pruned with its initial message only, the other holds the update.
C34_Witness ==
    \E c \in PrunedBefore : \E d \in clients :
        /\ Len(outbox[c]) = 1
        /\ readyState[d] = "OPEN"
        /\ Len(outbox[d]) = 2
        /\ outbox[d][2].type = "update"
        /\ outbox[d][2].data.metrics.realtime.activeConnections = 2

(***************************************************************************)
(* C35  The type of a task.                                                *)
(***************************************************************************)
\* The ordered list of category keywords.
CategoryKeywords ==
    <<"Schema", "Vector", "Memory", "Safety", "Testing", "Integration", "Dashboard">>

Occurring == {k \in 1..Len(CategoryKeywords) : Includes(taskName, CategoryKeywords[k])}

\* C35: the type chosen for a task name is the first keyword of the ordered
\* list Schema, Vector, Memory, Safety, Testing, Integration, Dashboard
\* that occurs in the name, whatever the order of the keywords in the name,
\* and Schema when none occurs; 'Memory Service Integration Testing' is
\* Memory.
C35_FirstKeywordInListOrder ==
    taskType # "undetermined" =>
        /\ Occurring = {} => taskType = "Schema"
        /\ \A k \in Occurring :
              (\A j \in Occurring : k <= j) => taskType = CategoryKeywords[k]
        /\ taskName = <<"Memory", "Service", "Integration", "Testing">> => taskType = "Memory"

\* A name in which Testing comes before Memory has been classified Memory.
C35_Witness ==
    /\ taskName = <<"Testing", "Service", "Memory">>
    /\ taskType = "Memory"

(***************************************************************************)
(* C36  The blueprint deployment.                                          *)
(***************************************************************************)
\* The paths of the input, in input order.
InputPaths == SelectSeq(stdinData, LAMBDA line : line # BlankLine)

ResultPaths == [k \in 1..Len(deployResults) |-> deployResults[k].filePath]

SomeDeploymentFailed == \E k \in 1..Len(deployResults) : ~deployResults[k].success

\* Every path of the input has its one result, in input order; a path
\* without a blueprint has a failure; the blueprints posted are those of the
\* paths that hold one, once each, in input order; the exit code is
\* non-zero exactly if a deployment failed.
AllDeployedAndExitTells ==
    /\ ResultPaths = InputPaths
    /\ \A k \in 1..Len(deployResults) :
          fileSystem[deployResults[k].filePath] # "blueprint" => ~deployResults[k].success
    /\ requests = SelectSeq(InputPaths, LAMBDA p : fileSystem[p] = "blueprint")
    /\ deployExit # <<0>> <=> SomeDeploymentFailed

DayIndexes == 1..Horizon

\* The fewest tasks any day of the plan has.
FewestTasksOfADay ==
    CHOOSE n \in 0..Len(AllTasks) :
        /\ \E d \in DayIndexes : Len(getTasksForDay(d)) = n
        /\ \A d \in DayIndexes : Len(getTasksForDay(d)) >= n

\* C37: every day index in 1..18 has at least one scheduled task, the day
\* of a cycle is such an index, and the results a daily cycle aggregates
\* are never empty: there is a result for each of the day's tasks, so
\* successRate is not computed by its total = 0 branch and
\* calculateEfficiency does not divide by zero.
C37_NoEmptyDay ==
    /\ FewestTasksOfADay >= 1
    /\ currentDay \in DayIndexes
    /\ Len(tasksForToday) >= 1
    /\ ExecuteTasksReturned =>
          /\ Len(results) = Len(tasksForToday)
          /\ Len(results) >= 1
          /\ "literal" \notin DOMAIN SuccessRate(results)
          /\ "nan" \notin DOMAIN calculateEfficiency(results)

\* The tasks of a day with the fewest tasks of the plan have been executed
\* and executeDaily is about to aggregate their results.
C37_Witness ==
    /\ pc = "report"
    /\ Len(tasksForToday) = FewestTasksOfADay
    /\ Len(results) = FewestTasksOfADay

(***************************************************************************)
(* C38  The day task selector is complete.                                 *)
(***************************************************************************)
\* The position of the task with the id in the plan.
PlanPosition(id) == CHOOSE k \in 1..Len(AllTasks) : AllTasks[k].id = id

\* The positions of the selection of day d that hold the task with the id.
Selected(d, id) == {k \in 1..Len(getTasksForDay(d)) : getTasksForDay(d)[k].id = id}

\* Every scheduled day of every task is a day of the week that holds it.
DaysInsideTheirWeek ==
    \A w \in DOMAIN TASKS : \A k \in 1..Len(TASKS[w].tasks) :
        \A i \in 1..Len(TASKS[w].tasks[k].days) :
            /\ Includes(TASKS[w].days, TASKS[w].tasks[k].days[i])
            /\ getCurrentWeek(TASKS[w].tasks[k].days[i]) = w

\* Each task is selected once on each of its scheduled days.
SelectedOnceOnItsDays ==
    \A k \in 1..Len(AllTasks) : \A i \in 1..Len(AllTasks[k].days) :
        Cardinality(Selected(AllTasks[k].days[i], AllTasks[k].id)) = 1

\* The selection of every day is in plan order.
SelectedInPlanOrder ==
    \A d \in 1..Horizon : \A i, j \in 1..Len(getTasksForDay(d)) :
        i < j => PlanPosition(getTasksForDay(d)[i].id) < PlanPosition(getTasksForDay(d)[j].id)

\* C38: every scheduled day of every task lies inside the day range of the
\* week that holds the task, so for every task t and every day d of t's
\* scheduled days getTasksForDay(d) contains t exactly once, in plan
\* order; the tasks a cycle executes are then all the tasks of the plan
\* scheduled on its day.
C38_SelectorComplete ==
    /\ DaysInsideTheirWeek
    /\ SelectedOnceOnItsDays
    /\ SelectedInPlanOrder
    /\ \A k \in 1..Len(AllTasks) :
          Includes(AllTasks[k].days, currentDay) =>
              \E i \in 1..Len(tasksForToday) : tasksForToday[i].id = AllTasks[k].id

\* On the last day of a week, a day with several tasks, executeTasks has
\* returned with the results of its tasks in plan order.
C38_Witness ==
    /\ pc = "report"
    /\ currentDay = Week2LastDay
    /\ Len(tasksForToday) = 2
    /\ [k \in 1..Len(results) |-> results[k].taskId] = <<"7.1", "7.2">>

(***************************************************************************)
(* C39  The broadcast of addAlert.                                         *)
(***************************************************************************)
\* The step inserts an alert, which is then the first of the list.
AlertInserted ==
    /\ Len(inserted') = Len(inserted) + 1
    /\ Len(metrics'.alerts) >= 1
    /\ metrics'.alerts[1] = inserted'[Len(inserted')]

\* The update built from the snapshot the step leaves, the new alert in its
\* list.
UpdateWithAlert == UpdateMessage(metrics', dclock')

\* C39 as stated: a step of the health tick or the task-simulation tick
\* that inserts an alert sends, in the same step, one update built after
\* the insertion to every observer of the set.
C39_AlertSentToEveryObserver ==
    [][(HealthTick \/ TaskTick) /\ Len(inserted') # Len(inserted) =>
          /\ AlertInserted
          /\ \A c \in ClientIds :
                IF c \in clients
                THEN outbox'[c] = Append(outbox[c], UpdateWithAlert)
                ELSE outbox'[c] = outbox[c]]_vars

\* C39: a step of the health tick or the task-simulation tick that inserts
\* an alert broadcasts in the same step, without waiting for the 10-second
\* tick, an update built after the alert is in the list: every observer of
\* the set whose socket is OPEN is sent that one update or, its send
\* failing, is removed from the set unsent; an observer whose socket is not
\* OPEN is sent nothing; a timer step that inserts no alert sends nothing.
C39_AlertBroadcastAtOnce ==
    [][HealthTick \/ TaskTick =>
          IF Len(inserted') # Len(inserted)
          THEN /\ AlertInserted
               /\ \A c \in ClientIds :
                     IF c \in clients /\ readyState[c] = "OPEN"
                     THEN \/ /\ outbox'[c] = Append(outbox[c], UpdateWithAlert)
                             /\ c \in clients'
                          \/ /\ outbox'[c] = outbox[c]
                             /\ c \notin clients'
                     ELSE /\ outbox'[c] = outbox[c]
                          /\ c \in clients' <=> c \in clients
          ELSE outbox' = outbox /\ clients' = clients]_vars

\* One timer callback has run and no broadcast tick: the observer holds,
\* after its initial message, the update that counts the alert the callback
\* has inserted.
C39_Witness ==
    /\ ticks = 1
    /\ Len(inserted) = 1
    /\ \E c \in clients :
        /\ Len(outbox[c]) = 2
        /\ outbox[c][1].type = "initial"
        /\ outbox[c][1].data.system.alerts = 0
        /\ outbox[c][2].type = "update"
        /\ outbox[c][2].data.status.system.alerts = 1

(***************************************************************************)
(* C40  Membership of the observer set.                                    *)
(***************************************************************************)
\* The observer has left: it has connected and is no longer in the set.
Left(c) == c \notin clients /\ readyState[c] # "CONNECTING"

\* The step in which the send to the observer fails in a broadcast.
FailedSend(c) ==
    /\ BroadcastTick \/ TaskTick
    /\ readyState[c] = "OPEN"
    /\ outbox'[c] = outbox[c]

\* An observer of the set has had its connect event and has not had its
\* close event; an observer yet to connect is not in the set and has been
\* sent nothing.
MembersAreConnected ==
    \A c \in ClientIds :
        /\ c \in clients => readyState[c] \in {"OPEN", "CLOSING"} /\ Len(outbox[c]) >= 1
        /\ readyState[c] = "CONNECTING" => c \notin clients /\ outbox[c] = <<>>
        /\ readyState[c] = "CLOSED" => c \notin clients

\* C40: the close or error event of an observer leaves it outside the set;
\* an observer that has left the set never returns and is never sent
\* another message; an observer enters the set at its connect event and
\* leaves it at its close event, its error event or a failed send, so it
\* is in the set only between the two.
C40_MemberBetweenConnectAndLeave ==
    [][\A c \in ClientIds :
          /\ MembersAreConnected
          /\ Close(c) \/ SocketError(c) => c \notin clients' /\ outbox'[c] = outbox[c]
          /\ Left(c) => c \notin clients' /\ readyState'[c] # "CONNECTING" /\ outbox'[c] = outbox[c]
          /\ c \notin clients /\ c \in clients' => Connect(c)
          /\ c \in clients /\ c \notin clients' =>
                Close(c) \/ SocketError(c) \/ FailedSend(c)]_vars

\* An observer has had its close event with its initial message only; an
\* update broadcast after that has reached the observer left in the set.
C40_Witness ==
    \E c, d \in ClientIds :
        /\ readyState[c] = "CLOSED"
        /\ c \notin clients
        /\ Len(outbox[c]) = 1
        /\ d \in clients
        /\ Len(outbox[d]) = 2
        /\ outbox[d][2].type = "update"
        /\ outbox[d][2].data.metrics.realtime.activeConnections = 1

====
